---- MODULE Spec2Model ----
(***************************************************************************)
(* ParcelPredator: a BDI delivery agent for the Deliveroo.js grid world.   *)
(*                                                                         *)
(* The module models, from the JavaScript sources,                         *)
(*   - the belief store's claim registry and cooldown registry             *)
(*     (src/bdi/belief.js),                                                *)
(*   - the pickup and delivery plans with their movers                     *)
(*     (src/bdi/plans/goPickUp.js, goDeliver.js, pddlMove.js, moveBfs.js), *)
(*   - the agent's intention loop (src/bdi/agent.js, intention.js),        *)
(*   - the corridor handoff protocol between two bound agents              *)
(*     (src/bdi/comm.js).                                                  *)
(*                                                                         *)
(* Each subsystem has its own specification over the shared variables:     *)
(* SpecClaims, SpecCooldown, SpecPlan, SpecLoop, SpecHandoff.              *)
(***************************************************************************)
EXTENDS Integers, Sequences, FiniteSets, TLC

VARIABLES
    now,        \* Date.now(), in milliseconds
    claims,     \* Belief._claims: a Map, kept as a sequence in insertion order
    regTime,    \* history: per agent, when its claim was last registered (-1: none/cleared)
    cooldowns,  \* Belief._cooldowns: fullKey -> expiry timestamp (0: no entry)
    cdSet,      \* history: per fullKey, the last setCooldown not cleared since
    usePddl,    \* config.usePddl: PDDLMove (TRUE) or MoveBfs (FALSE) as the mover
    pos,        \* the agent's cell (parent.x; the corridor lies on y = 0)
    carriedIds, \* parent.carried_parcels (parent.carried is its size)
    ground,     \* the parcels lying on the ground in the world
    beliefFree, \* the parcel ids belief.getFreeParcels() returns
    plan,       \* the predicate of the plan in execution
    ppc,        \* where the plan's execute() stands (the await it is suspended on)
    attempt,    \* the plan's macro-retry counter
    retries,    \* the mover's retry counter (micro-retries / MoveBfs retries)
    planStopped,  \* the plan's own stopped flag
    moverStopped, \* the stopped flag of the mover the plan created
    result,     \* what execute() returned or threw
    hist,       \* history of the execution (pickup calls, moves after stop, ...)
    intentions, \* Agent.intentions: the queue, as a sequence of intention objects
    ints,       \* the intention objects: predicate, stopped flag, state
    lpc,        \* where Agent.loop() stands
    awaited,    \* the intention whose achieve() the loop awaits (0: none)
    coordinationMode,  \* Agent._coordinationMode
    cooldownLeft,      \* Agent._coordinationCooldownUntil - Date.now(), if positive
    failedPending,     \* history: an intention failed and the agent has not
                       \* deliberated since
    handoffs,          \* history: how often coordination mode was entered
    agentPos,     \* the two bound agents in a corridor: their cells
    carried,      \* Agent.carried of each
    parcelHolder, \* who carries the parcel ("ground": nobody)
    parcelCell,   \* the cell of the parcel when it lies on the ground, else -1
    coordination, \* Agent._coordinationMode of each
    coolingDown,  \* Date.now() < Agent._coordinationCooldownUntil, of each
    inbox,        \* protocol messages on their way to each agent, in order
    friendSeen,   \* belief of each agent: the cell of its friend
    parcelSeen,   \* belief of each agent: the cell of a free parcel, or -1
    began,        \* history: the agents that started the protocol
    lost,         \* history: a protocol message was lost
    parcels,        \* Belief.parcels: id -> observedReward, timestamp, carriedBy
    lossForSecond,  \* Belief.lossForSecond
    freeParcels,    \* what the last getFreeParcels() returned
    freeBefore,     \* history: what the getFreeParcels() before it returned
    freeAt,         \* history: Date.now() of the last getFreeParcels()
    me,             \* the agent the options are generated for: x, carried, ...
    free,           \* what belief.getFreeParcels() returns: id, x, reward
    deliveryZones,  \* belief.deliveryZones
    parcelSpawners, \* belief.parcelSpawners
    otherAgents,    \* the cells of belief.getOtherAgents(me.id)
    gen,            \* history: the last run of optionsGeneration
    isSecondAgent,      \* Comm.isSecondAgent
    friendId,           \* Comm.friendId (NoFriend: null)
    handshakeCompleted, \* Comm.handshakeCompleted
    ackAwaited,         \* the senders whose _handleHandshake awaits say(ack)
    sent,               \* history: the header of the last message sent to the partner
    refused,            \* history: isReady() held back a message or a handoff
    commHist,           \* history: rebinding, and what the last inbound message did
    agents,         \* Belief.agents: id -> x, timestamp
    ownId,          \* me.id (NoFriend: undefined until the first onYou)
    seenAt,         \* history: when the stored observation was made
    merged,         \* history: the last remote merge and what it met
    gridWalls,      \* the cells of the grid that are not accessible
    queryStart,     \* the start cell of the path query
    queryGoal,      \* the goal cell of the path query
    queryAgents,    \* the cells of the other agents given to the query
    route,          \* the direction sequence the pathfinder returned
    walked,         \* the cells entered by applying the route step by step
    solver,         \* which pathfinder answered the query
    frozenActs,     \* history: a plan issued a primitive action in coordination mode
    solutionCache,  \* fastLocalSolver's solutionCache: the entries [key, plan] of the Map
    cacheCallCount, \* fastLocalSolver's cacheCallCount
    held,           \* the key under which the cache keeps the very array a caller was handed
    answer,         \* history: the last query of fastLocalSolver and what it returned
    agreed,         \* the goals of the REQUESTs whose AGREE is being sent (await adapter.say)
    replied,         \* history: the last reply to a REQUEST and whether its goal was queued
    sensing,    \* what onAgents finds: the grid, both agents, the delivery zones
    detection,    \* whether the corridor deadlock detection started a handoff
    carrying,    \* me.carried, me.carriedReward and me.carried_parcels
    serverParcels,    \* the server's parcels: who holds each one and its reward now
    rival,    \* the two bound agents: claim registry, pursuit and score of each
    wire    \* INTENTION messages on their way to each agent

beliefVars == <<claims, regTime>>
cooldownVars == <<cooldowns, cdSet>>
planVars == <<usePddl, pos, carriedIds, ground, beliefFree, plan, ppc, attempt,
              retries, planStopped, moverStopped, result, hist>>
handoffVars == <<agentPos, carried, parcelHolder, parcelCell, coordination,
                 coolingDown, inbox, friendSeen, parcelSeen, began, lost>>

storeVars == <<parcels, lossForSecond, freeParcels, freeBefore, freeAt>>

optionVars == <<me, free, deliveryZones, parcelSpawners, otherAgents, gen>>

commVars == <<isSecondAgent, friendId, handshakeCompleted, ackAwaited, sent,
              refused, commHist>>

mergeVars == <<agents, ownId, seenAt, merged>>

pathVars == <<gridWalls, queryStart, queryGoal, queryAgents, route, walked, solver>>

cacheVars == <<solutionCache, cacheCallCount, held, answer>>

requestVars == <<agreed, replied>>

detectVars == <<sensing, detection>>

carryVars == <<carrying, serverParcels>>

raceVars == <<rival, wire>>

extVars == <<commVars, mergeVars, pathVars, cacheVars, requestVars, detectVars, carryVars, raceVars, frozenActs>>

loopVars == <<intentions, ints, lpc, awaited, coordinationMode, cooldownLeft,
              failedPending, handoffs>>

(***************************************************************************)
(* Bounds of the model                                                     *)
(***************************************************************************)
MaxScore == 1       \* claim scores range over 0..MaxScore
MaxClaims == 2      \* the registry holds the claims of at most MaxClaims agents
MaxCell == 2        \* the corridor has the cells 0..MaxCell
MaxPos == 4         \* the option generator's map is the cells 0..MaxPos
Capacity == 2       \* parcels the agent can carry
GridW == 3          \* the pathfinder's grid has GridW columns
GridH == 2          \* and GridH rows
MaxOthers == 2      \* other agents in a path query
MaxCalls == 101     \* calls of fastLocalSolver
MaxReward == 2      \* observed parcel rewards range over 1..MaxReward
MaxCorridor == 3    \* the corridor is the cells 0..MaxCorridor, delivery at 0
MaxHandoffs == 2    \* coordination episodes in one run
MaxIntentions == 4  \* intention objects alive at once (queued or running)

(***************************************************************************)
(* Program constants                                                       *)
(***************************************************************************)
CLAIM_TTL == 3000
COOLDOWN_MS == 3000
MAX_ATTEMPTS == 3
PLAN_MAX_ATTEMPTS == 3
TARGET_COOLDOWN_MS == 3000
MICRO_RETRIES == 1
MAX_RETRIES == 4
HANDOFF_COOLDOWN_MS == 3000

\* The instants at which the clock is sampled: around the TTL and cooldown
\* boundaries of something registered at 0 or at 1.
TimePoints ==
    {0, 1, CLAIM_TTL - 1, CLAIM_TTL, CLAIM_TTL + 1, CLAIM_TTL + 2}

\* Agent identifiers are strings, kept as sequences of character codes:
\* "a", "ab" and "b".
AgentIds == {<<1>>, <<1, 2>>, <<2>>}
ParcelIds == {"p1", "p2"}
Actions == {"go_pick_up", "go_deliver"}
Scores == 0..MaxScore

Null == [null |-> TRUE]

Min(a, b) == IF a < b THEN a ELSE b

\* JavaScript's < on two strings: lexicographic on the code units, a proper
\* prefix sorting first.
LexLess(a, b) ==
    \E i \in 1..(Min(Len(a), Len(b)) + 1) :
        /\ \A j \in 1..(i - 1) : a[j] = b[j]
        /\ \/ (i > Len(a) /\ i <= Len(b))
           \/ (i <= Len(a) /\ i <= Len(b) /\ a[i] < b[i])

(***************************************************************************)
(* A JavaScript Map keyed by agent identifier, in insertion order          *)
(***************************************************************************)
MapHas(m, k) == \E i \in 1..Len(m) : m[i].agentId = k

MapGet(m, k) ==
    IF MapHas(m, k) THEN m[CHOOSE i \in 1..Len(m) : m[i].agentId = k] ELSE Null

MapSet(m, k, v) ==
    IF MapHas(m, k)
    THEN [i \in 1..Len(m) |-> IF m[i].agentId = k THEN v ELSE m[i]]
    ELSE Append(m, v)

MapDelete(m, k) == SelectSeq(m, LAMBDA e : e.agentId # k)

(***************************************************************************)
(* Claim registry                                                          *)
(***************************************************************************)
\* The mutant reverses the subtraction, so that no claim ever expires.
ClaimExpiredReversed(c, t) == c.timestamp - t > CLAIM_TTL

ClaimExpired(c, t) == t - c.timestamp > CLAIM_TTL

\* registerClaim(agentId, [action, x, y, id, score])
registerClaim(m, agentId, predicate, t) ==
    MapSet(m, agentId,
           [agentId |-> agentId, action |-> predicate[1], x |-> predicate[2],
            y |-> predicate[3], targetId |-> predicate[4], score |-> predicate[5],
            timestamp |-> t])

\* getClaims(): deletes the expired entries and returns the Map
getClaims(m, t) == SelectSeq(m, LAMBDA c : ~ClaimExpired(c, t))

\* isParcelClaimed(parcelId): the first go_pick_up claim on the parcel, or null
isParcelClaimed(m, t, parcelId) ==
    LET live == getClaims(m, t)
        hits == {i \in 1..Len(live) :
                    live[i].action = "go_pick_up" /\ live[i].targetId = parcelId}
    IN IF hits = {} THEN Null
       ELSE live[CHOOSE i \in hits : \A j \in hits : i <= j]

\* The mutant breaks ties towards the larger identifier.
YieldsToReversed(c, myId, myScore) ==
    LET theirScore == c.score
    IN \/ theirScore > myScore
       \/ (theirScore = myScore /\ LexLess(myId, c.agentId))

\* One competing claim outranks mine: higher score, or equal score and a
\* smaller identifier.  (claim.score || 0 is the score itself on integers.)
YieldsTo(c, myId, myScore) ==
    LET theirScore == c.score
    IN \/ theirScore > myScore
       \/ (theirScore = myScore /\ LexLess(c.agentId, myId))

\* shouldYieldClaim(parcelId, myId, myScore): {yieldTo} or null
shouldYieldClaim(m, t, parcelId, myId, myScore) ==
    LET live == getClaims(m, t)
        hits == {i \in 1..Len(live) :
                    /\ live[i].agentId # myId
                    /\ live[i].action = "go_pick_up"
                    /\ live[i].targetId = parcelId
                    /\ YieldsTo(live[i], myId, myScore)}
    IN IF hits = {} THEN Null
       ELSE [yieldTo |-> live[CHOOSE i \in hits : \A j \in hits : i <= j].agentId]

\* clearMyClaim(myId, parcelId)
clearMyClaim(m, myId, parcelId) ==
    LET c == MapGet(m, myId)
    IN IF c # Null /\ c.targetId = parcelId THEN MapDelete(m, myId) ELSE m

\* getFriendIntention(friendId): this._claims.get(friendId) || null
getFriendIntention(m, friend) == MapGet(m, friend)

\* getBlockedCells(belief, myId, friendId): the cells of the other agents
\* and the destination of the friend's claim
getBlockedCells(others, m, friend) ==
    LET friendClaim == getFriendIntention(m, friend)
    IN others \cup (IF friendClaim # Null THEN {<<friendClaim.x, friendClaim.y>>} ELSE {})

(***************************************************************************)
(* Cooldown registry                                                       *)
(***************************************************************************)
Kinds == {"parcel", "tile", "delivery"}
\* The keys used with each kind: a parcel identifier, or a tile "x,y".
CooldownTargets == {<<"parcel", "p1">>, <<"tile", "0,0">>, <<"delivery", "0,0">>}
Durations == {1, COOLDOWN_MS}

\* `${kind}:${key}`
FullKey(kind, key) == kind \o ":" \o key

FullKeys == {FullKey(kt[1], kt[2]) : kt \in CooldownTargets}

\* setCooldown(kind, key, ms)
setCooldown(cd, kind, key, ms, t) == [cd EXCEPT ![FullKey(kind, key)] = t + ms]

\* The mutant keeps the entry through the expiry instant itself.
CooldownActiveLate(until, t) == until # 0 /\ ~(t > until)

\* until is set and Date.now() has not reached it
CooldownActive(until, t) == until # 0 /\ ~(t >= until)

\* isOnCooldown(kind, key): the value returned
isOnCooldown(cd, kind, key, t) == CooldownActive(cd[FullKey(kind, key)], t)

\* isOnCooldown(kind, key): the registry it leaves (an expired entry is deleted)
isOnCooldownPrune(cd, kind, key, t) ==
    LET until == cd[FullKey(kind, key)]
    IN IF until # 0 /\ t >= until THEN [cd EXCEPT ![FullKey(kind, key)] = 0] ELSE cd

\* clearCooldown(kind, key)
clearCooldown(cd, kind, key) == [cd EXCEPT ![FullKey(kind, key)] = 0]

NoCd == [set |-> FALSE, at |-> 0, ms |-> 0]

(***************************************************************************)
(* The clock                                                               *)
(***************************************************************************)
Tick == \E t \in TimePoints : t > now /\ now' = t

(***************************************************************************)
(* The pickup and delivery plans and their movers.                         *)
(*                                                                         *)
(* The world is a corridor of cells 0..MaxCell on the row y = 0, with one  *)
(* delivery tile and one fixed cell per parcel.  A plan's execute() is cut *)
(* at its awaits: ppc names the await it is suspended on.  The code that   *)
(* runs between two awaits is a function from the state before to the     *)
(* state after, over the record PlanState.                                 *)
(***************************************************************************)
Cells == 0..MaxCell
DeliveryCells == {0}
\* The target parcel lies at the far end, the other parcel on the way to it.
ParcelCell(p) == IF p = "p1" THEN MaxCell ELSE 1
\* The agent is "a", its friend "ab"
MyId == <<1>>
FriendId == <<1, 2>>
\* The parcel the pickup goals are about; the other parcel lies on the way.
TargetParcel == "p1"
TargetIds == {TargetParcel, "explore"}
\* The spawner tile an exploration goal walks to
ExploreCell == MaxCell
\* The clock of the plan runs: a cooldown set at 0 ends at the second instant.
PlanTimePoints == {0, COOLDOWN_MS}

\* tx + ',' + ty
CellKey(c) == ToString(c) \o ",0"

PlanCooldownTargets ==
    {<<"parcel", id>> : id \in TargetIds}
        \cup {<<"tile", CellKey(ExploreCell)>>}
        \cup {<<"delivery", CellKey(c)>> : c \in DeliveryCells}

PlanFullKeys == {FullKey(kt[1], kt[2]) : kt \in PlanCooldownTargets}

NoPlan == [desire |-> "none", tx |-> 0, id |-> "", score |-> 0]

NoHist ==
    [planPickup |-> FALSE,      \* GoPickUp called adapter.pickup()
     moverPickup |-> FALSE,     \* the mover called adapter.pickup()
     absentAll |-> FALSE,       \* the target id was no free parcel at the start
                                \* nor at any time during the execution
     movedAfterStop |-> FALSE,  \* a move was issued after stop()
     checkedCarried |-> -1,     \* parent.carried when GoDeliver tested it
     conflict |-> FALSE,        \* the mover threw ConflictDetectedError
     retriedAfterConflict |-> FALSE]  \* a new mover was run after that

PlanState ==
    [pos |-> pos, carriedIds |-> carriedIds, ground |-> ground,
     beliefFree |-> beliefFree, plan |-> plan, ppc |-> ppc, attempt |-> attempt,
     retries |-> retries, planStopped |-> planStopped,
     moverStopped |-> moverStopped, result |-> result, hist |-> hist,
     cooldowns |-> cooldowns, claims |-> claims]

\* execute() settles: it returns ("true", "false") or throws (the message);
\* its local counters and its mover are gone.
Finish(s, outcome) ==
    [s EXCEPT !.ppc = "done", !.result = outcome,
              !.attempt = 0, !.retries = 0, !.moverStopped = FALSE]

\* adapter.move(dir) is issued and awaited
IssueMove(s) ==
    [s EXCEPT !.ppc = "moving",
              !.hist.movedAfterStop = @ \/ s.planStopped]

\* The plan's macro-retry after a mover that did not return true
\* (goPickUp.js 223-234, goDeliver.js 62-75)
RetryOrGiveUp(s, maxAttempts, kind, key, ms, message) ==
    IF s.attempt < maxAttempts - 1
    THEN [s EXCEPT !.ppc = "backoff"]
    ELSE Finish([s EXCEPT !.cooldowns = setCooldown(@, kind, key, ms, now)],
                message)

\* The mover returned "obstructed"
MoverObstructed(s) ==
    IF s.plan.desire = "go_pick_up"
    THEN RetryOrGiveUp(s, MAX_ATTEMPTS, "parcel", s.plan.id, COOLDOWN_MS, "pickup failed")
    ELSE RetryOrGiveUp(s, PLAN_MAX_ATTEMPTS, "delivery", CellKey(s.plan.tx),
                       TARGET_COOLDOWN_MS, "delivery failed")

\* The mover threw: GoPickUp rethrows 'stopped' and counts anything else as a
\* failed attempt; GoDeliver has no try/catch around the mover.
MoverThrew(s, message) ==
    IF s.plan.desire = "go_pick_up"
    THEN IF message = "stopped" THEN Finish(s, "stopped")
         ELSE RetryOrGiveUp(s, MAX_ATTEMPTS, "parcel", s.plan.id, COOLDOWN_MS,
                            "pickup failed")
    ELSE Finish(s, message)

\* The mover's test of its own flag before a step
MoverStep(s) ==
    IF s.moverStopped THEN MoverThrew(s, "stopped") ELSE IssueMove(s)

\* new PDDLMove / new MoveBfs, then execute('go_to', tx, ty) up to its first
\* await: the solver for PDDLMove, the first move for MoveBfs.
BeginMover(s) ==
    LET m == [s EXCEPT !.moverStopped = FALSE, !.retries = 0,
                       !.hist.retriedAfterConflict = @ \/ s.hist.conflict]
    IN IF usePddl THEN [m EXCEPT !.ppc = "planning"] ELSE MoverStep(m)

\* The mutant skips the availability test.
StillFreeSkipped(s, id) == TRUE

\* belief.getFreeParcels().some(p => p.id === id)
StillFree(s, id) == id \in s.beliefFree

\* goPickUp.js 238-256: from the end of the movement to adapter.pickup()
ReachedPickUp(s) ==
    LET id == s.plan.id
        pruned == [s EXCEPT !.claims = getClaims(@, now)]
    IN IF s.planStopped THEN Finish(s, "stopped")
       ELSE IF id # "" /\ id # "explore" /\ ~StillFree(s, id)
       THEN Finish(s, "true")
       ELSE IF id # "" /\ id # "explore"
               /\ shouldYieldClaim(s.claims, now, id, MyId, s.plan.score) # Null
       THEN Finish([pruned EXCEPT !.claims = clearMyClaim(@, MyId, id)], "yielded")
       ELSE [(IF id # "" /\ id # "explore" THEN pruned ELSE s)
                EXCEPT !.ppc = "pickup", !.hist.planPickup = TRUE]

\* goDeliver.js 79-85: the carried test, then adapter.putdown()
ReachedDeliver(s) ==
    LET n == Cardinality(s.carriedIds)
        t == [s EXCEPT !.hist.checkedCarried = n]
    IN IF n <= 0 THEN Finish(t, "no parcels to deliver")
       ELSE [t EXCEPT !.ppc = "putdown"]

\* The mover returned true
MoverArrived(s) ==
    IF s.plan.desire = "go_pick_up" THEN ReachedPickUp(s)
    ELSE ReachedDeliver(
            [s EXCEPT !.cooldowns = clearCooldown(@, "delivery", CellKey(s.plan.tx))])

Dir(s) == IF s.plan.tx > s.pos THEN 1 ELSE -1

\* pddlMove.js: the opportunistic pickup after a move
OpportunisticPickup(s) ==
    LET freeHere == {p \in s.beliefFree : ParcelCell(p) = s.pos}
        picked == {p \in s.ground : ParcelCell(p) = s.pos}
    IN IF freeHere = {} THEN s
       ELSE [s EXCEPT !.hist.moverPickup = TRUE,
                      !.beliefFree = @ \ picked,
                      !.carriedIds = @ \cup picked,
                      !.ground = @ \ picked]

\* pddlMove.js: the opportunistic putdown after a move
OpportunisticPutdown(s) ==
    IF Cardinality(s.carriedIds) > 0 /\ s.pos \in DeliveryCells
    THEN [s EXCEPT !.beliefFree = @ \ s.carriedIds, !.carriedIds = {}]
    ELSE s

\* adapter.move() succeeded: the rest of the step and the start of the next
MoveSucceeded(s) ==
    LET m == [s EXCEPT !.pos = @ + Dir(s)]
        o == IF usePddl THEN OpportunisticPutdown(OpportunisticPickup(m)) ELSE m
    IN IF o.pos = o.plan.tx THEN MoverArrived(o)
       ELSE IF usePddl THEN MoverStep([o EXCEPT !.retries = 0])
       ELSE MoverStep(o)

\* adapter.move() failed, the cell ahead not being the friend's
MoveFailed(s) ==
    IF usePddl
    THEN IF s.retries < MICRO_RETRIES THEN [s EXCEPT !.ppc = "microsleep"]
         ELSE MoverObstructed(s)
    ELSE LET r == [s EXCEPT !.retries = @ + 1]
         IN IF r.retries < MAX_RETRIES THEN [r EXCEPT !.ppc = "bfsBackoff"]
            ELSE MoverThrew(r, "move blocked after retries")

\* MoveBfs: adapter.move() failed and the friend stands on the cell ahead.
\* _triggerCoordination starts the handoff, which stops every intention when
\* the link to the friend is ready, and the mover throws.
MoveFailedByFriend(s, commReady) ==
    LET t == IF commReady
             THEN [s EXCEPT !.planStopped = TRUE, !.hist.conflict = TRUE]
             ELSE [s EXCEPT !.hist.conflict = TRUE]
    IN MoverThrew(t, "blocked by friend")

\* PDDLMove.moveWithRetry: the micro-retry delay is over
MicroWake(s) == IssueMove([s EXCEPT !.retries = @ + 1])

\* MoveBfs: the backoff is over, the path is computed again
BfsWake(s) == MoverStep(s)

\* The plan's backoff is over: the next attempt, with a new mover
BackoffWake(s) ==
    LET a == [s EXCEPT !.attempt = @ + 1]
    IN IF a.planStopped THEN Finish(a, "stopped") ELSE BeginMover(a)

\* PDDLMove: the solver answers
SolverReturns(s, found) ==
    IF found THEN MoverStep(s) ELSE MoverThrew(s, "no plan found")

\* clearMyClaim for each picked parcel
clearMyClaimAll(m, myId, picked) ==
    LET c == MapGet(m, myId)
    IN IF c # Null /\ c.targetId \in picked THEN MapDelete(m, myId) ELSE m

\* goPickUp.js 256-296: adapter.pickup() answers
PickupResolves(s) ==
    LET res == {p \in s.ground : ParcelCell(p) = s.pos}
    IN IF res = {}
       THEN IF s.plan.id = "explore"
            THEN Finish([s EXCEPT !.cooldowns =
                            setCooldown(@, "tile", CellKey(s.plan.tx), COOLDOWN_MS, now)],
                        "false")
            ELSE Finish(s, "pickup failed")
       ELSE Finish([s EXCEPT
                !.carriedIds = @ \cup res,
                !.ground = @ \ res,
                !.beliefFree = @ \ res,
                !.cooldowns = [k \in DOMAIN @ |->
                                 IF \E p \in res : k = FullKey("parcel", p)
                                 THEN 0 ELSE @[k]],
                !.claims = clearMyClaimAll(@, MyId, res)], "true")

\* goDeliver.js 85-110: adapter.putdown() answers
PutdownResolves(s) ==
    Finish([s EXCEPT !.beliefFree = @ \ s.carriedIds, !.carriedIds = {}], "true")

\* Intention.achieve: new plan, execute() up to its first await
NewPlan(s, pred, kind, key) ==
    [s EXCEPT !.plan = pred, !.attempt = 0, !.retries = 0,
              !.planStopped = FALSE, !.moverStopped = FALSE, !.result = "none",
              !.hist = [NoHist EXCEPT !.absentAll = pred.id \notin s.beliefFree],
              !.cooldowns = isOnCooldownPrune(@, kind, key, now)]

\* goPickUp.js 193-215
GoPickUpExecute(s, pred) ==
    LET n == NewPlan(s, pred, "parcel", pred.id)
    IN IF isOnCooldown(s.cooldowns, "parcel", pred.id, now)
       THEN Finish(n, "target on cooldown")
       ELSE IF n.pos # pred.tx THEN BeginMover(n)
       ELSE ReachedPickUp(n)

\* goDeliver.js 32-52
GoDeliverExecute(s, pred) ==
    LET n == NewPlan(s, pred, "delivery", CellKey(pred.tx))
    IN IF isOnCooldown(s.cooldowns, "delivery", CellKey(pred.tx), now)
       THEN Finish(n, "target on cooldown")
       ELSE IF n.pos # pred.tx THEN BeginMover(n)
       ELSE ReachedDeliver(n)

InitPlanIdle ==
    /\ usePddl = FALSE
    /\ pos = 0
    /\ carriedIds = {}
    /\ ground = {}
    /\ beliefFree = {}
    /\ plan = NoPlan
    /\ ppc = "idle"
    /\ attempt = 0
    /\ retries = 0
    /\ planStopped = FALSE
    /\ moverStopped = FALSE
    /\ result = "none"
    /\ hist = NoHist

(***************************************************************************)
(* The agent: intention queue, loop and coordination state.                *)
(*                                                                         *)
(* Intention objects live in the pool ints; the queue holds their indices. *)
(* An object that is neither queued nor running is garbage and its slot    *)
(* is free again.  The code between two awaits is a function over the      *)
(* record AgentState.                                                      *)
(***************************************************************************)
IntentionIds == 1..MaxIntentions

Predicates ==
    {[desire |-> "go_pick_up", id |-> "p1"], [desire |-> "go_pick_up", id |-> "p2"],
     [desire |-> "go_deliver", id |-> "deliver"], [desire |-> "go_random", id |-> "rnd"]}

RequestPredicates == {q \in Predicates : q.desire = "go_pick_up"}

NoPredicate == [desire |-> "none", id |-> ""]

FreeSlot == [predicate |-> NoPredicate, stopped |-> FALSE, st |-> "free"]

AgentState ==
    [intentions |-> intentions, ints |-> ints,
     coordinationMode |-> coordinationMode, cooldownLeft |-> cooldownLeft]

\* Agent.isInHandoff
isInHandoff(a) == a.coordinationMode \/ a.cooldownLeft > 0

\* Agent.setHandoffState
setHandoffState(a, value) ==
    IF value THEN [a EXCEPT !.coordinationMode = TRUE]
    ELSE [a EXCEPT !.coordinationMode = FALSE, !.cooldownLeft = HANDOFF_COOLDOWN_MS]

\* Intention.stop on the head of the queue: intentions[0]?.stop?.()
stopHead(a) ==
    IF Len(a.intentions) > 0
    THEN [a EXCEPT !.ints[a.intentions[1]].stopped = TRUE]
    ELSE a

\* Objects no longer referenced are collected.
Collect(a, keep) ==
    [a EXCEPT !.ints = [i \in IntentionIds |->
        IF i = keep \/ \E k \in 1..Len(a.intentions) : a.intentions[k] = i
        THEN a.ints[i] ELSE FreeSlot]]

\* The mutant queues the goal in the handoff state too.
pushInHandoff(a, predicate, replace) ==
    IF \E k \in 1..Len(a.intentions) :
            a.ints[a.intentions[k]].predicate = predicate
    THEN a
    ELSE LET i == CHOOSE j \in IntentionIds : a.ints[j].st = "free"
             b == [a EXCEPT
                     !.ints[i] = [predicate |-> predicate, stopped |-> FALSE,
                                  st |-> "queued"],
                     !.intentions = Append(@, i)]
         IN IF replace /\ Len(b.intentions) > 1 THEN stopHead(b) ELSE b

\* Agent.push(predicate, replace)
push(a, predicate, replace) ==
    IF isInHandoff(a) THEN a
    ELSE IF \E k \in 1..Len(a.intentions) :
                a.ints[a.intentions[k]].predicate = predicate
    THEN a
    ELSE LET i == CHOOSE j \in IntentionIds : a.ints[j].st = "free"
             b == [a EXCEPT
                     !.ints[i] = [predicate |-> predicate, stopped |-> FALSE,
                                  st |-> "queued"],
                     !.intentions = Append(@, i)]
         IN IF replace /\ Len(b.intentions) > 1 THEN stopHead(b) ELSE b

\* optionsGeneration: useful says whether parcels are carried or known,
\* choice is the goal its scoring selects.
optionsGeneration(a, keep, useful, choice) ==
    IF Len(a.intentions) > 0
    THEN IF a.ints[a.intentions[1]].predicate.desire # "go_random" THEN a
         ELSE IF ~useful THEN a
         ELSE LET b == stopHead(a)
              IN push(Collect([b EXCEPT !.intentions = Tail(@)], keep), choice, TRUE)
    ELSE push(a, choice, TRUE)

\* beginCoordinationProtocol / _handleAcquirePhase: stop the head, empty the queue
stopAndClear(a, keep) ==
    Collect([stopHead(a) EXCEPT !.intentions = <<>>], keep)

\* The mutant lets the loop go on while achieve() is pending.
LoopSuspendedNever(pc) == FALSE

\* The loop is suspended on await intention.achieve()
LoopSuspended(pc) == pc = "achieving"

(***************************************************************************)
(* The coordination protocol of comm.js between two bound agents: A, who   *)
(* carries a parcel, and B, empty-handed and nearer to the delivery cell.  *)
(***************************************************************************)
HandoffAgents == {"A", "B"}

Other(ag) == IF ag = "A" THEN "B" ELSE "A"

CorridorCells == 0..MaxCorridor

NoCell == -1

HandoffState ==
    [agentPos |-> agentPos, carried |-> carried, parcelHolder |-> parcelHolder,
     parcelCell |-> parcelCell, coordination |-> coordination,
     coolingDown |-> coolingDown, inbox |-> inbox, friendSeen |-> friendSeen,
     parcelSeen |-> parcelSeen]

First(cells) == IF Len(cells) = 0 THEN NoCell ELSE cells[1]

\* grid.isAccessible
isAccessible(c) == c \in CorridorCells

\* grid.getDirection from a cell to another; between cells that are not
\* adjacent the result is either the direction by sign or none (bySign).
getDirection(x, tx, bySign) ==
    IF tx = x + 1 THEN "right"
    ELSE IF tx = x - 1 THEN "left"
    ELSE IF tx = x \/ ~bySign THEN "none"
    ELSE IF tx > x THEN "right" ELSE "left"

\* Comm._adjacentAccessible: x + 1 first, then x - 1 (no cells above or below)
adjacentAccessible(x) == SelectSeq(<<x + 1, x - 1>>, isAccessible)

\* Comm._isOccupiedByAgent: by the believed positions of the other agents
isOccupiedByAgent(h, ag, c) == h.friendSeen[ag] = c

\* adapter.move: the server refuses a move off the map or onto an agent
CanMove(h, ag, c) == isAccessible(c) /\ h.agentPos[Other(ag)] # c

move(h, ag, c) == IF CanMove(h, ag, c) THEN [h EXCEPT !.agentPos[ag] = c] ELSE h

\* adapter.putdown, then me.carried = 0
putdown(h, ag) ==
    IF h.parcelHolder = ag
    THEN [h EXCEPT !.parcelHolder = "ground", !.parcelCell = h.agentPos[ag],
                   !.carried[ag] = 0]
    ELSE [h EXCEPT !.carried[ag] = 0]

\* adapter.pickup, then me.carried = picked || me.carried
pickup(h, ag) ==
    IF h.parcelHolder = "ground" /\ h.parcelCell = h.agentPos[ag]
    THEN [h EXCEPT !.parcelHolder = ag, !.parcelCell = NoCell, !.carried[ag] = 1]
    ELSE h

agentInHandoff(h, ag) == h.coordination[ag] \/ h.coolingDown[ag]

\* Comm._resetCoordination
resetCoordination(h, ag) ==
    [h EXCEPT !.coordination[ag] = FALSE, !.coolingDown[ag] = TRUE]

\* Comm._sendProtocol
sendProtocol(h, ag, phase) == [h EXCEPT !.inbox[Other(ag)] = Append(@, phase)]

\* Comm._handleYieldPhase
handleYieldPhase(h, ag) ==
    LET x == h.agentPos[ag]
        Candidate(c) == ~isOccupiedByAgent(h, ag, c) /\ c # h.friendSeen[ag]
        target == First(SelectSeq(adjacentAccessible(x), Candidate))
    IN IF target # NoCell /\ CanMove(h, ag, target)
       THEN sendProtocol(move(h, ag, target), ag, "PROTOCOL_RELEASE")
       ELSE resetCoordination(sendProtocol(h, ag, "PROTOCOL_STUCK"), ag)

\* Comm._findAdjacentParcelCell
findAdjacentParcelCell(h, ag) ==
    LET HasParcel(c) == h.parcelSeen[ag] = c /\ ~isOccupiedByAgent(h, ag, c)
    IN First(SelectSeq(adjacentAccessible(h.agentPos[ag]), HasParcel))

\* The mutant acquires the parcel and tells the partner nothing.
handleAcquirePhaseSilent(h, ag) ==
    LET cell == findAdjacentParcelCell(h, ag)
    IN IF cell = NoCell
       THEN resetCoordination(h, ag)
       ELSE resetCoordination(pickup(move(h, ag, cell), ag), ag)

\* Comm._handleAcquirePhase
handleAcquirePhase(h, ag) ==
    LET cell == findAdjacentParcelCell(h, ag)
    IN IF cell = NoCell
       THEN sendProtocol(resetCoordination(h, ag), ag, "PROTOCOL_END")
       ELSE sendProtocol(resetCoordination(pickup(move(h, ag, cell), ag), ag),
                         ag, "PROTOCOL_END")

\* Move to the cell, put the parcel down, move back, ask the partner to acquire
ReleaseAt(h, ag, c) ==
    sendProtocol(move(putdown(move(h, ag, c), ag), ag, h.agentPos[ag]),
                 ag, "PROTOCOL_ACQUIRE")

\* Comm._handleReleasePhase
handleReleasePhase(h, ag, bySign) ==
    LET x == h.agentPos[ag]
        dirToFriend == getDirection(x, h.friendSeen[ag], bySign)
        Free(c) == ~isOccupiedByAgent(h, ag, c) /\ c # h.friendSeen[ag]
        Lateral(c) == Free(c) /\ getDirection(x, c, bySign) # dirToFriend
        Forward(c) ==
            getDirection(x, c, bySign) = dirToFriend /\ ~isOccupiedByAgent(h, ag, c)
        lateral == First(SelectSeq(adjacentAccessible(x), Lateral))
        forward == First(SelectSeq(adjacentAccessible(x), Forward))
    IN IF lateral # NoCell /\ CanMove(h, ag, lateral)
       THEN ReleaseAt(h, ag, lateral)
       ELSE IF dirToFriend # "none" /\ forward # NoCell /\ CanMove(h, ag, forward)
       THEN ReleaseAt(h, ag, forward)
       ELSE resetCoordination(sendProtocol(h, ag, "PROTOCOL_STUCK"), ag)

\* Comm._handleHandoff
handleHandoff(h, ag, phase, bySign) ==
    LET g == [h EXCEPT !.coordination[ag] = TRUE]
    IN CASE phase = "PROTOCOL_YIELD" -> handleYieldPhase(g, ag)
         [] phase = "PROTOCOL_RELEASE" -> handleReleasePhase(g, ag, bySign)
         [] phase = "PROTOCOL_ACQUIRE" -> handleAcquirePhase(g, ag)
         [] OTHER -> resetCoordination(g, ag)

\* Comm.beginCoordinationProtocol
beginCoordinationProtocol(h, ag) ==
    IF agentInHandoff(h, ag) THEN h
    ELSE LET g == [h EXCEPT !.coordination[ag] = TRUE]
         IN IF h.carried[ag] = 0
            THEN handleYieldPhase(g, ag)
            ELSE sendProtocol(g, ag, "PROTOCOL_YIELD")

InitHandoffAt(b) ==
    /\ agentPos = [ag \in HandoffAgents |-> IF ag = "A" THEN b + 1 ELSE b]
    /\ carried = [ag \in HandoffAgents |-> IF ag = "A" THEN 1 ELSE 0]
    /\ parcelHolder = "A"
    /\ parcelCell = NoCell
    /\ coordination = [ag \in HandoffAgents |-> FALSE]
    /\ coolingDown = [ag \in HandoffAgents |-> FALSE]
    /\ inbox = [ag \in HandoffAgents |-> <<>>]
    /\ friendSeen = [ag \in HandoffAgents |-> IF ag = "A" THEN b ELSE b + 1]
    /\ parcelSeen = [ag \in HandoffAgents |-> NoCell]
    /\ began = {}
    /\ lost = FALSE

InitHandoffIdle == InitHandoffAt(1)

(***************************************************************************)
(* The parcel store of Belief: timestamps, decay and expiry.  Rewards are  *)
(* kept in thousandths, so that (elapsed / 1000) * lossForSecond is exact. *)
(***************************************************************************)
FRESHNESS_MS == 2000

\* The parcels the store is followed for
StoreIds == {"p1"}

LossRates == {0, 1}

Rewards == 1..MaxReward

StoreTimePoints == {0, 1000, FRESHNESS_MS - 1, FRESHNESS_MS}

NoParcel ==
    [stored |-> FALSE, observedReward |-> 0, timestamp |-> 0, carriedBy |-> FALSE]

NotReturned == [returned |-> FALSE, reward |-> 0, observedReward |-> 0, timestamp |-> 0]

Max(a, b) == IF a > b THEN a ELSE b

\* parcel.observedReward - (elapsed / 1000) * lossForSecond, times 1000
estimatedReward(p, loss, t) == p.observedReward * 1000 - (t - p.timestamp) * loss

\* The mutant forgets the freshness window.
ExpiredParcelByReward(p, loss, t) == estimatedReward(p, loss, t) <= 0

\* checkExpiredParcels: elapsed >= 2000 || estimatedReward <= 0
ExpiredParcel(p, loss, t) ==
    (t - p.timestamp) >= FRESHNESS_MS \/ estimatedReward(p, loss, t) <= 0

\* Belief.checkExpiredParcels
checkExpiredParcels(ps, loss, t) ==
    [id \in StoreIds |->
        IF ps[id].stored /\ ExpiredParcel(ps[id], loss, t) THEN NoParcel ELSE ps[id]]

\* Belief.getFreeParcels, on the store that checkExpiredParcels has left
getFreeParcels(ps, loss, t) ==
    [id \in StoreIds |->
        LET p == ps[id]
            reward == Max(0, estimatedReward(p, loss, t))
        IN IF p.stored /\ ~p.carriedBy /\ reward > 0
           THEN [returned |-> TRUE, reward |-> reward,
                 observedReward |-> p.observedReward, timestamp |-> p.timestamp]
           ELSE NotReturned]

InitStoreIdle ==
    /\ parcels = [id \in StoreIds |-> NoParcel]
    /\ lossForSecond = 1
    /\ freeParcels = [id \in StoreIds |-> NotReturned]
    /\ freeBefore = [id \in StoreIds |-> NotReturned]
    /\ freeAt = 0

(***************************************************************************)
(* The option generator's scoring (options.js).  The map is a row of cells *)
(* 0..MaxPos, so that the Manhattan distance is the difference of the      *)
(* cells.  Contention penalties are kept in tenths and a netScore, which   *)
(* divides by the length of the route, in ScoreUnit-ths.                   *)
(***************************************************************************)
Positions == 0..MaxPos

\* tenths of a penalty, times the least common multiple of the route lengths
ScoreUnit == 60

NoZone == -1

NegInfinity == -1000000

Infinity == 1000000

Abs(n) == IF n < 0 THEN 0 - n ELSE n

\* grid.manhattanDistance on one row
manhattanDistance(a, b) == Abs(a - b)

\* getContentionPenalty: {contested, penalty}, the penalty in tenths
getContentionPenalty(px, myX, others) ==
    LET myDist == manhattanDistance(myX, px)
        dists == {manhattanDistance(ax, px) : ax \in others}
        minOtherDist == IF dists = {} THEN Infinity
                        ELSE CHOOSE d \in dists : \A e \in dists : d <= e
    IN IF minOtherDist = Infinity THEN [contested |-> FALSE, penalty |-> 10]
       ELSE IF minOtherDist < myDist THEN [contested |-> TRUE, penalty |-> 1]
       ELSE IF minOtherDist = myDist THEN [contested |-> TRUE, penalty |-> 5]
       ELSE IF minOtherDist <= myDist + 2 THEN [contested |-> FALSE, penalty |-> 8]
       ELSE [contested |-> FALSE, penalty |-> 10]

\* The comparator of getNearbyFreeParcels: a sorts after b
SortsAfter(a, b) ==
    IF a.contested # b.contested THEN a.contested ELSE a.dist > b.dist

\* Array.prototype.sort is stable: an element goes behind its equals
RECURSIVE InsertSorted(_, _)
InsertSorted(e, sorted) ==
    IF sorted = <<>> \/ SortsAfter(Head(sorted), e) THEN <<e>> \o sorted
    ELSE <<Head(sorted)>> \o InsertSorted(e, Tail(sorted))

RECURSIVE StableSort(_)
StableSort(s) ==
    IF s = <<>> THEN <<>>
    ELSE InsertSorted(s[Len(s)], StableSort(SubSeq(s, 1, Len(s) - 1)))

\* findNearestDelivery(x, y, deliveryZones, g, belief): cooled is the set of
\* zones the belief holds on cooldown (none when no belief is passed)
RECURSIVE NearestIn(_, _, _)
NearestIn(x, zones, best) ==
    IF zones = <<>> THEN best
    ELSE LET dist == manhattanDistance(x, Head(zones))
         IN NearestIn(x, Tail(zones),
                      IF dist < best.dist THEN [zone |-> Head(zones), dist |-> dist]
                      ELSE best)

\* The mutant takes the nearest zone whether or not it is on cooldown.
findNearestDeliveryAny(x, zones, cooled) ==
    NearestIn(x, zones, [zone |-> NoZone, dist |-> Infinity])

findNearestDelivery(x, zones, cooled) ==
    LET none == [zone |-> NoZone, dist |-> Infinity]
        bestAny == NearestIn(x, zones, none)
        bestNotCooled ==
            NearestIn(x, SelectSeq(zones, LAMBDA d : d \notin cooled), none)
    IN IF bestNotCooled.zone # NoZone THEN bestNotCooled ELSE bestAny

\* The pickup legs of evaluateRoute: position, carried, reward, cost and
\* penalties after the sequence
RECURSIVE PickupLegs(_, _, _)
PickupLegs(acc, sequence, loss) ==
    IF sequence = <<>> THEN acc
    ELSE LET parcel == Head(sequence)
             segmentDist == manhattanDistance(acc.pos, parcel.x)
         IN PickupLegs([pos |-> parcel.x,
                        carried |-> acc.carried + 1,
                        totalReward |-> acc.totalReward + parcel.reward,
                        totalCost |-> acc.totalCost + segmentDist * loss * acc.carried,
                        totalContentionPenalty |->
                            acc.totalContentionPenalty + parcel.contentionPenalty],
                       Tail(sequence), loss)

\* The mutant charges nothing for the leg to the delivery zone.
evaluateRouteFreeDelivery(start, sequence, zones, agent) ==
    IF sequence = <<>>
    THEN [netScore |-> NegInfinity, deliveryZone |-> NoZone]
    ELSE LET loss == agent.lossForMovement
             legs == PickupLegs([pos |-> start, carried |-> agent.carried,
                                 totalReward |-> agent.carriedReward, totalCost |-> 0,
                                 totalContentionPenalty |-> 0], sequence, loss)
             delivery == findNearestDelivery(legs.pos, zones, {})
             baseScore == legs.totalReward - legs.totalCost
         IN IF delivery.zone = NoZone
            THEN [netScore |-> NegInfinity, deliveryZone |-> NoZone]
            ELSE [netScore |-> (baseScore * legs.totalContentionPenalty
                                  * ScoreUnit) \div (10 * Len(sequence)),
                  deliveryZone |-> delivery.zone]

\* evaluateRoute(start, sequence, deliveryZones, me, g)
evaluateRoute(start, sequence, zones, agent) ==
    IF sequence = <<>>
    THEN [netScore |-> NegInfinity, deliveryZone |-> NoZone]
    ELSE LET loss == agent.lossForMovement
             legs == PickupLegs([pos |-> start, carried |-> agent.carried,
                                 totalReward |-> agent.carriedReward, totalCost |-> 0,
                                 totalContentionPenalty |-> 0], sequence, loss)
             delivery == findNearestDelivery(legs.pos, zones, {})
             totalCost == legs.totalCost + delivery.dist * loss * legs.carried
             baseScore == legs.totalReward - totalCost
         IN IF delivery.zone = NoZone
            THEN [netScore |-> NegInfinity, deliveryZone |-> NoZone]
            ELSE [netScore |-> (baseScore * legs.totalContentionPenalty
                                  * ScoreUnit) \div (10 * Len(sequence)),
                  deliveryZone |-> delivery.zone]

\* The for loop of buildGreedyRoute: the first index with the best netScore
RECURSIVE BestExtension(_, _, _, _, _, _, _)
BestExtension(start, sequence, remaining, zones, agent, i, best) ==
    IF i > Len(remaining) THEN best
    ELSE LET score == evaluateRoute(start, Append(sequence, remaining[i]),
                                    zones, agent).netScore
         IN BestExtension(start, sequence, remaining, zones, agent, i + 1,
                          IF score > best.bestScore
                          THEN [bestIdx |-> i, bestScore |-> score]
                          ELSE best)

RemoveAt(s, i) == SubSeq(s, 1, i - 1) \o SubSeq(s, i + 1, Len(s))

\* The while loop of buildGreedyRoute
RECURSIVE GreedyFrom(_, _, _, _, _, _)
GreedyFrom(start, sequence, remaining, zones, agent, maxPicks) ==
    IF ~(Len(sequence) < maxPicks /\ Len(remaining) > 0) THEN sequence
    ELSE LET best == BestExtension(start, sequence, remaining, zones, agent, 1,
                                   [bestIdx |-> 0, bestScore |-> NegInfinity])
         IN IF best.bestIdx = 0 \/ best.bestScore <= 0 THEN sequence
            ELSE GreedyFrom(start, Append(sequence, remaining[best.bestIdx]),
                            RemoveAt(remaining, best.bestIdx), zones, agent,
                            maxPicks)

\* buildGreedyRoute(start, candidates, deliveryZones, me, g, maxPicks)
buildGreedyRoute(start, candidates, zones, agent, maxPicks) ==
    GreedyFrom(start, <<>>, candidates, zones, agent, maxPicks)

(***************************************************************************)
(* optionsGeneration after its in-flight guard: the goal it decides on.    *)
(* The world is the record w of what it reads: me, the free parcels, the   *)
(* delivery zones and spawners, the other agents, cooldowns and claims.    *)
(***************************************************************************)
\* The mutant keeps the parcels that are on cooldown among the candidates.
getNearbyFreeParcelsCooledToo(w) ==
    LET WithDist(p) ==
            LET contention == getContentionPenalty(p.x, w.me.x, w.otherAgents)
            IN [id |-> p.id, x |-> p.x, reward |-> p.reward,
                dist |-> manhattanDistance(w.me.x, p.x),
                contested |-> contention.contested,
                contentionPenalty |-> contention.penalty]
    IN StableSort([i \in 1..Len(w.free) |-> WithDist(w.free[i])])

\* getNearbyFreeParcels(belief, x, y, g, myId, K): at most K = 10 parcels,
\* more than the model ever holds
getNearbyFreeParcels(w) ==
    LET notCooled == SelectSeq(w.free,
            LAMBDA p : ~isOnCooldown(w.cooldowns, "parcel", p.id, w.now))
        WithDist(p) ==
            LET contention == getContentionPenalty(p.x, w.me.x, w.otherAgents)
            IN [id |-> p.id, x |-> p.x, reward |-> p.reward,
                dist |-> manhattanDistance(w.me.x, p.x),
                contested |-> contention.contested,
                contentionPenalty |-> contention.penalty]
    IN StableSort([i \in 1..Len(notCooled) |-> WithDist(notCooled[i])])

\* chooseBestSpawner with at most one spawner on the map: whatever the
\* backoff, the tile cooldown and the stochastic escape, that one is chosen
chooseBestSpawner(spawners) == IF spawners = <<>> THEN NoZone ELSE spawners[1]

Goal(desire, x, id, score) == [desire |-> desire, x |-> x, id |-> id, score |-> score]

\* optionsGeneration from Case A on (lines 375-432), given the route it built
chooseGoal(w, nearest, nearbyCandidates, deliverNowScore, bestRoute, bestRouteScore, spawner) ==
    LET nearestDelivery == nearest.zone
        caseA == /\ Len(bestRoute) > 0
                 /\ bestRouteScore > deliverNowScore
                 /\ bestRouteScore > 0
        yields ==
            caseA /\ shouldYieldClaim(w.claims, w.now, bestRoute[1].id, MyId,
                                      bestRouteScore) # Null
        goal ==
            IF caseA /\ ~yields
            THEN Goal("go_pick_up", bestRoute[1].x, bestRoute[1].id, bestRouteScore)
            ELSE IF w.me.carried > 0 /\ nearestDelivery # NoZone /\ deliverNowScore > 0
            THEN Goal("go_deliver", nearestDelivery, "deliver", deliverNowScore)
            ELSE IF w.me.carried > 0 /\ nearestDelivery # NoZone
            THEN Goal("go_deliver", nearestDelivery, "deliver", 0)
            ELSE IF /\ Len(w.parcelSpawners) > 0
                    /\ ~isOnCooldown(w.cooldowns, "parcel", "explore", w.now)
                    /\ spawner # NoZone
            THEN Goal("go_pick_up", spawner, "explore", 0)
            ELSE Goal("go_random", w.me.x, "rnd", 0)
    IN [goal |-> goal,
        claimed |-> caseA /\ ~yields,
        yielded |-> caseA /\ yields,
        candidates |-> nearbyCandidates,
        bestRoute |-> bestRoute,
        bestRouteScore |-> bestRouteScore,
        deliverNowScore |-> deliverNowScore]

\* optionsGeneration, lines 339-373: the route and its score
chooseRoute(w, nearest, nearbyCandidates, deliverNowScore, bestRoute) ==
    chooseGoal(w, nearest, nearbyCandidates, deliverNowScore, bestRoute,
               evaluateRoute(w.me.x, bestRoute, w.deliveryZones, w.me).netScore,
               chooseBestSpawner(w.parcelSpawners))

\* optionsGeneration, lines 323-338: the nearest delivery and the candidates
chooseFrom(w, nearest, nearbyCandidates) ==
    chooseRoute(w, nearest, nearbyCandidates,
                IF w.me.carried > 0 /\ nearest.zone # NoZone
                THEN (w.me.carriedReward
                        - nearest.dist * w.me.lossForMovement * w.me.carried)
                     * ScoreUnit
                ELSE NegInfinity,
                IF w.me.capacity - w.me.carried > 0 /\ Len(nearbyCandidates) > 0
                THEN buildGreedyRoute(w.me.x, nearbyCandidates, w.deliveryZones,
                                      w.me, w.me.capacity - w.me.carried)
                ELSE <<>>)

\* optionsGeneration after its in-flight guard
chooseOption(w) ==
    chooseFrom(w,
               findNearestDelivery(w.me.x, w.deliveryZones,
                   {d \in Positions :
                       isOnCooldown(w.cooldowns, "delivery", CellKey(d), w.now)}),
               getNearbyFreeParcels(w))

NoGoal == [desire |-> "none", x |-> 0, id |-> "", score |-> 0]

NoOption ==
    [goal |-> NoGoal, claimed |-> FALSE, yielded |-> FALSE, candidates |-> <<>>,
     bestRoute |-> <<>>, bestRouteScore |-> NegInfinity,
     deliverNowScore |-> NegInfinity]

\* What the last call of optionsGeneration met and did (history)
NoGen ==
    [ran |-> FALSE, head |-> "none", useful |-> FALSE, inHandoff |-> FALSE,
     before |-> <<>>, after |-> <<>>, pushed |-> 0, opt |-> NoOption]

InitOptionsIdle ==
    /\ me = [x |-> 0, carried |-> 0, carriedReward |-> 0, capacity |-> Capacity,
             lossForMovement |-> 0]
    /\ free = <<>>
    /\ deliveryZones = <<>>
    /\ parcelSpawners = <<>>
    /\ otherAgents = {}
    /\ gen = NoGen

(***************************************************************************)
(* The state of the communication module, of the agent belief and of the   *)
(* pathfinder where a specification does not follow them.                  *)
(***************************************************************************)
\* friendId = null, me.id = undefined
NoFriend == <<>>

NoAgent == [stored |-> FALSE, x |-> 0, timestamp |-> 0]

NoMessage == [handled |-> FALSE, foreign |-> FALSE, changed |-> FALSE]

NoCommHist == [rebound |-> FALSE, answered |-> FALSE, last |-> NoMessage]

NoHeader == ""

NoMerge ==
    [ran |-> FALSE, kind |-> "none", hadEntry |-> FALSE, storedSeen |-> 0,
     remoteSeen |-> 0, hasEntry |-> FALSE, resultSeen |-> 0]

NoPath == <<"none">>

InitCommIdle ==
    /\ isSecondAgent = FALSE
    /\ friendId = NoFriend
    /\ handshakeCompleted = FALSE
    /\ ackAwaited = {}
    /\ sent = NoHeader
    /\ refused = FALSE
    /\ commHist = NoCommHist

InitMergeIdle ==
    /\ agents = [id \in AgentIds |-> NoAgent]
    /\ ownId = MyId
    /\ seenAt = [agent |-> [id \in AgentIds |-> 0], parcel |-> [id \in StoreIds |-> 0]]
    /\ merged = NoMerge

InitPathIdle ==
    /\ gridWalls = {}
    /\ queryStart = <<0, 0>>
    /\ queryGoal = <<0, 0>>
    /\ queryAgents = {}
    /\ route = NoPath
    /\ walked = <<>>
    /\ solver = "none"

NoKey == <<>>

NoAnswer == [ran |-> FALSE, query |-> <<>>, plan |-> <<>>, hit |-> FALSE]

InitCacheIdle ==
    /\ solutionCache = {}
    /\ cacheCallCount = 0
    /\ held = NoKey
    /\ answer = NoAnswer

NoReply == [header |-> "none", queued |-> FALSE]

InitRequestIdle ==
    /\ agreed = {}
    /\ replied = NoReply

NoSensing ==
    [walls |-> {}, me |-> <<1, 1>>, friend |-> <<1, 1>>, others |-> {},
     carried |-> 0, friendCarried |-> 0, deliveryZones |-> <<>>, inHandoff |-> FALSE]

InitDetectIdle ==
    /\ sensing = NoSensing
    /\ detection = [ran |-> FALSE, started |-> FALSE]

InitCarryIdle ==
    /\ carrying = [carried |-> 0, carriedReward |-> 0, carried_parcels |-> <<>>]
    /\ serverParcels = [p \in ParcelIds |-> [holder |-> "gone", reward |-> 0]]

InitRaceIdle ==
    /\ rival = [ag \in HandoffAgents |->
                  [claims |-> <<>>, st |-> "idle", score |-> 0,
                   selected |-> FALSE, got |-> FALSE]]
    /\ wire = [ag \in HandoffAgents |-> <<>>]

InitExtIdle ==
    /\ InitCommIdle
    /\ InitMergeIdle
    /\ InitPathIdle
    /\ frozenActs = FALSE
    /\ InitRaceIdle
    /\ InitCarryIdle
    /\ InitDetectIdle
    /\ InitRequestIdle
    /\ InitCacheIdle

(***************************************************************************)
(* The agent store of Belief and the remote merges of both stores.  A      *)
(* message carries one entry; a timestamp of 0 stands for an entry without *)
(* the timestamp field.                                                    *)
(***************************************************************************)
AGENT_TTL == 500

\* Belief.checkExpiredAgents
checkExpiredAgents(ag, t) ==
    [id \in AgentIds |->
        IF ag[id].stored /\ t - ag[id].timestamp >= AGENT_TTL THEN NoAgent ELSE ag[id]]

\* Belief.syncAgents(agentsArray, myId) with one sensed agent
syncAgents(ag, a, self, t) ==
    checkExpiredAgents(
        IF a.id = self THEN ag
        ELSE [ag EXCEPT ![a.id] = [stored |-> TRUE, x |-> a.x, timestamp |-> t]],
        t)

\* The mutant replaces the stored entry whatever the timestamps are.
RemoteIsNewerAlways(existing, incoming) == TRUE

\* !existing || (p.timestamp && p.timestamp > existing.timestamp)
RemoteIsNewer(existing, incoming) ==
    ~existing.stored \/ (incoming.timestamp # 0 /\ incoming.timestamp > existing.timestamp)

\* Belief.mergeRemoteAgents(remoteAgents, myId) with one agent of the partner
mergeRemoteAgents(ag, a, self, t) ==
    IF a.id = self THEN ag
    ELSE IF RemoteIsNewer(ag[a.id], a)
    THEN [ag EXCEPT ![a.id] =
            [stored |-> TRUE, x |-> a.x,
             timestamp |-> IF a.timestamp # 0 THEN a.timestamp ELSE t]]
    ELSE ag

\* Belief.applyAgentsDelta(delta, myId) with a delta of one entry
applyAgentsDelta(ag, kind, a, self, t) ==
    IF a.id = self THEN ag
    ELSE CASE kind = "added" ->
                IF ag[a.id].stored THEN ag
                ELSE [ag EXCEPT ![a.id] = [stored |-> TRUE, x |-> a.x, timestamp |-> t]]
           [] kind = "updated" ->
                [ag EXCEPT ![a.id] = [stored |-> TRUE, x |-> a.x, timestamp |-> t]]
           [] OTHER -> [ag EXCEPT ![a.id] = NoAgent]

\* Belief.mergeRemoteParcels(remoteParcels) with one parcel of the partner
mergeRemoteParcels(ps, p, t) ==
    IF RemoteIsNewer(ps[p.id], p)
    THEN [ps EXCEPT ![p.id] =
            [stored |-> TRUE, observedReward |-> p.reward,
             timestamp |-> IF p.timestamp # 0 THEN p.timestamp ELSE t,
             carriedBy |-> p.carriedBy]]
    ELSE ps

\* Belief.applyParcelsDelta(delta) with a delta of one entry
applyParcelsDelta(ps, kind, p, t) ==
    CASE kind = "added" ->
            IF ps[p.id].stored THEN ps
            ELSE [ps EXCEPT ![p.id] = [stored |-> TRUE, observedReward |-> p.reward,
                                       timestamp |-> t, carriedBy |-> p.carriedBy]]
      [] kind = "updated" ->
            [ps EXCEPT ![p.id] = [stored |-> TRUE, observedReward |-> p.reward,
                                  timestamp |-> t, carriedBy |-> p.carriedBy]]
      [] OTHER -> [ps EXCEPT ![p.id] = NoParcel]

\* Belief.removeParcel
removeParcel(ps, id) == [ps EXCEPT ![id] = NoParcel]

(***************************************************************************)
(* The communication module (comm.js): handshake, readiness and the        *)
(* dispatch of inbound messages.                                           *)
(***************************************************************************)
CommState ==
    [isSecondAgent |-> isSecondAgent, friendId |-> friendId,
     handshakeCompleted |-> handshakeCompleted, ackAwaited |-> ackAwaited]

\* The mutant takes a recorded friend for a completed handshake.
isReadyOnceBound(c) == c.friendId # NoFriend

\* Comm.isReady
isReady(c) == c.handshakeCompleted /\ c.friendId # NoFriend

\* Comm._handleHandshake, up to its await of say(ack) on the first agent
handleHandshake(c, senderId, phase) ==
    IF phase = "request" /\ ~c.isSecondAgent
    THEN [c EXCEPT !.friendId = senderId, !.ackAwaited = @ \cup {senderId}]
    ELSE IF phase = "ack" /\ c.isSecondAgent
    THEN [c EXCEPT !.friendId = senderId, !.handshakeCompleted = TRUE]
    ELSE c

\* Comm._handleRequest: the guard of a REQUEST that passes its validation
requestAccepted(c, a, senderId) ==
    /\ isReady(c)
    /\ senderId = c.friendId
    /\ Len(a.intentions) < 2

\* Comm._handleHandoff on the agent: the mode is entered and the phase
\* handled; it ends in a reset or, the mode kept, in a message to the
\* partner (goesOn).  Only _handleAcquirePhase stops the running intention.
handleHandoffPhase(a, phase, goesOn, keep) ==
    LET b == setHandoffState(a, TRUE)
    IN IF phase = "PROTOCOL_ACQUIRE"
       THEN setHandoffState(IF goesOn THEN stopAndClear(b, keep) ELSE b, FALSE)
       ELSE IF goesOn /\ phase \in {"PROTOCOL_YIELD", "PROTOCOL_RELEASE"}
       THEN b
       ELSE setHandoffState(b, FALSE)

(***************************************************************************)
(* The pathfinders: Grid.bfsPath and the local PDDL solver (the problem    *)
(* PddlPlanner writes, parseProblem, aStarSearch).  A cell is <<x, y>>.    *)
(***************************************************************************)
GridCells == (0..(GridW - 1)) \X (0..(GridH - 1))

\* Grid.isAccessible on the grid with the walls
accessible(walls, c) == c \in GridCells /\ c \notin walls

\* Deliveroo: up = y+1, down = y-1, right = x+1, left = x-1
ServerDelta(dir) ==
    CASE dir = "up" -> <<0, 1>>
      [] dir = "down" -> <<0, -1>>
      [] dir = "left" -> <<-1, 0>>
      [] dir = "right" -> <<1, 0>>
      [] OTHER -> <<0, 0>>

\* The mutant takes down for y+1 and up for y-1.
BfsDirsFlipped == <<<<"up", 0, -1>>, <<"down", 0, 1>>, <<"left", -1, 0>>, <<"right", 1, 0>>>>

\* bfsPath: const dirs
BfsDirs == <<<<"up", 0, 1>>, <<"down", 0, -1>>, <<"left", -1, 0>>, <<"right", 1, 0>>>>

NoPrev == [cell |-> <<-1, -1>>, dir |-> "none"]

\* bfsPath: the for loop over dirs for the cell taken from the queue
RECURSIVE BfsExpand(_, _, _, _, _)
BfsExpand(walls, c, i, q, prev) ==
    IF i > Len(BfsDirs) THEN [q |-> q, prev |-> prev]
    ELSE LET n == <<c[1] + BfsDirs[i][2], c[2] + BfsDirs[i][3]>>
         IN IF ~accessible(walls, n) \/ n \in DOMAIN prev
            THEN BfsExpand(walls, c, i + 1, q, prev)
            ELSE BfsExpand(walls, c, i + 1, Append(q, n),
                           prev @@ (n :> [cell |-> c, dir |-> BfsDirs[i][1]]))

\* bfsPath: while (q.length)
RECURSIVE BfsLoop(_, _, _, _)
BfsLoop(walls, t, q, prev) ==
    IF q = <<>> \/ Head(q) = t THEN prev
    ELSE BfsLoop(walls, t, BfsExpand(walls, Head(q), 1, Tail(q), prev).q,
                 BfsExpand(walls, Head(q), 1, Tail(q), prev).prev)

\* The directions from the start to cur, along prev / cameFrom
RECURSIVE PathTo(_, _, _)
PathTo(prev, cur, path) ==
    IF cur \notin DOMAIN prev \/ prev[cur].dir = "none" THEN path
    ELSE PathTo(prev, prev[cur].cell, <<prev[cur].dir>> \o path)

BfsResult(prev, t) == IF t \notin DOMAIN prev THEN NoPath ELSE PathTo(prev, t, <<>>)

\* Grid.bfsPath(sx, sy, tx, ty)
bfsPath(walls, s, t) ==
    IF ~accessible(walls, t) \/ ~accessible(walls, s) THEN NoPath
    ELSE BfsResult(BfsLoop(walls, t, <<s>>, s :> NoPrev), t)

\* PddlPlanner.tileName: tile_x_y
tileName(c) == <<"tile", c[1], c[2]>>

\* parseProblem: the cell of a tile name
tileCell(name) == <<name[2], name[3]>>

PddlDirs == <<"up", "down", "left", "right">>

\* PddlPlanner.getProblem: the facts of the problem
getProblem(walls, s, g, others) ==
    [at |-> tileName(s),
     goal |-> tileName(g),
     walkable |-> {tileName(c) : c \in {d \in GridCells : accessible(walls, d)}},
     free |-> {tileName(c) :
                  c \in {d \in GridCells : accessible(walls, d)
                                           /\ (d \notin others \/ d = g)}},
     adjacent |->
        [dir \in {"up", "down", "left", "right"} |->
            {<<tileName(c), tileName(<<c[1] + ServerDelta(dir)[1],
                                       c[2] + ServerDelta(dir)[2]>>)>> :
                c \in {d \in GridCells :
                          /\ accessible(walls, d)
                          /\ accessible(walls, <<d[1] + ServerDelta(dir)[1],
                                                 d[2] + ServerDelta(dir)[2]>>)}}]]

\* parseProblem
parseProblem(problem) ==
    [start |-> tileCell(problem.at),
     goal |-> tileCell(problem.goal),
     tiles |-> {tileCell(n) : n \in problem.walkable},
     blocked |-> {tileCell(n) : n \in problem.walkable \ problem.free},
     adjacencies |->
        [c \in {tileCell(n) : n \in problem.walkable} |->
            [dir \in {"up", "down", "left", "right"} |->
                {tileCell(e[2]) : e \in {f \in problem.adjacent[dir] :
                                            tileCell(f[1]) = c}}]]]

\* aStarSearch: heuristic
heuristic(a, b) == Abs(a[1] - b[1]) + Abs(a[2] - b[2])

\* aStarSearch: getLowestFScore over the open set in insertion order
RECURSIVE getLowestFScore(_, _, _, _, _)
getLowestFScore(open, fScore, i, lowest, lowestScore) ==
    IF i > Len(open) THEN lowest
    ELSE IF fScore[open[i]] < lowestScore
    THEN getLowestFScore(open, fScore, i + 1, open[i], fScore[open[i]])
    ELSE getLowestFScore(open, fScore, i + 1, lowest, lowestScore)

\* The mutant walks through the cells of the other agents.
SkipNeighborNever(parsed, n) == FALSE

\* aStarSearch: skip blocked tiles (unless it is the goal)
SkipNeighbor(parsed, n) == n \in parsed.blocked /\ n # parsed.goal

\* aStarSearch: the for loop over the neighbours of current
RECURSIVE Relax(_, _, _, _)
Relax(parsed, cur, i, st) ==
    IF i > Len(PddlDirs) THEN st
    ELSE IF cur \notin DOMAIN parsed.adjacencies \/ parsed.adjacencies[cur][PddlDirs[i]] = {}
    THEN Relax(parsed, cur, i + 1, st)
    ELSE LET n == CHOOSE c \in parsed.adjacencies[cur][PddlDirs[i]] : TRUE
         IN IF SkipNeighbor(parsed, n) \/ ~(st.gScore[cur] + 1 < st.gScore[n])
            THEN Relax(parsed, cur, i + 1, st)
            ELSE Relax(parsed, cur, i + 1,
                    [open |-> IF \E k \in 1..Len(st.open) : st.open[k] = n
                              THEN st.open ELSE Append(st.open, n),
                     cameFrom |-> [st.cameFrom EXCEPT
                                     ![n] = [cell |-> cur, dir |-> PddlDirs[i]]],
                     gScore |-> [st.gScore EXCEPT ![n] = st.gScore[cur] + 1],
                     fScore |-> [st.fScore EXCEPT
                                   ![n] = st.gScore[cur] + 1 + heuristic(n, parsed.goal)]])

\* aStarSearch: one turn of while (openSet.size > 0), cur being the lowest
RECURSIVE AStarLoop(_, _)
AStarTurn(parsed, st, cur) ==
    IF cur = parsed.goal THEN PathTo(st.cameFrom, cur, <<>>)
    ELSE AStarLoop(parsed,
            Relax(parsed, cur, 1,
                  [st EXCEPT !.open = SelectSeq(st.open, LAMBDA c : c # cur)]))

AStarLoop(parsed, st) ==
    IF st.open = <<>> THEN NoPath
    ELSE AStarTurn(parsed, st, getLowestFScore(st.open, st.fScore, 1, NoPrev.cell, Infinity))

\* aStarSearch
aStarSearch(parsed) ==
    IF parsed.start = parsed.goal THEN <<>>
    ELSE AStarLoop(parsed,
            [open |-> <<parsed.start>>,
             cameFrom |-> [c \in parsed.tiles \cup {parsed.start} |-> NoPrev],
             gScore |-> [c \in parsed.tiles \cup {parsed.start} |->
                            IF c = parsed.start THEN 0 ELSE Infinity],
             fScore |-> [c \in parsed.tiles \cup {parsed.start} |->
                            IF c = parsed.start
                            THEN heuristic(parsed.start, parsed.goal) ELSE Infinity]])

InitLoopIdle ==
    /\ intentions = <<>>
    /\ ints = [i \in IntentionIds |-> FreeSlot]
    /\ lpc = "sleep"
    /\ awaited = 0
    /\ coordinationMode = FALSE
    /\ cooldownLeft = 0
    /\ failedPending = FALSE
    /\ handoffs = 0

(***************************************************************************)
(* SpecClaims: the claim registry of one belief store                      *)
(***************************************************************************)
InitBelief ==
    /\ claims = <<>>
    /\ regTime = [a \in AgentIds |-> -1]

InitCooldown ==
    /\ cooldowns = [k \in FullKeys |-> 0]
    /\ cdSet = [k \in FullKeys |-> NoCd]

RegisterClaim ==
    \E a \in AgentIds, act \in Actions, id \in ParcelIds, s \in Scores :
        /\ MapHas(claims, a) \/ Len(claims) < MaxClaims
        /\ claims' = registerClaim(claims, a, <<act, 0, 0, id, s>>, now)
        /\ regTime' = [regTime EXCEPT ![a] = now]
        /\ UNCHANGED <<extVars, now, cooldownVars, planVars, loopVars, handoffVars, storeVars, optionVars>>

GetClaims ==
    /\ claims' = getClaims(claims, now)
    /\ UNCHANGED <<extVars, now, regTime, cooldownVars, planVars, loopVars, handoffVars, storeVars, optionVars>>

ClearMyClaim ==
    \E a \in AgentIds, id \in ParcelIds :
        /\ claims' = clearMyClaim(claims, a, id)
        /\ regTime' = IF claims' # claims THEN [regTime EXCEPT ![a] = -1] ELSE regTime
        /\ UNCHANGED <<extVars, now, cooldownVars, planVars, loopVars, handoffVars, storeVars, optionVars>>

TickClaims == Tick /\ UNCHANGED <<extVars, beliefVars, cooldownVars, planVars, loopVars, handoffVars, storeVars, optionVars>>

NextClaims ==
    \/ RegisterClaim
    \/ GetClaims
    \/ ClearMyClaim
    \/ TickClaims

vars == <<now, beliefVars, cooldownVars, planVars, loopVars, handoffVars, storeVars, optionVars,
          extVars>>

Init ==
    /\ now = 0
    /\ InitBelief
    /\ InitCooldown
    /\ InitPlanIdle
    /\ InitOptionsIdle
    /\ InitExtIdle
    /\ InitLoopIdle
    /\ InitHandoffIdle
    /\ InitStoreIdle

SpecClaims == Init /\ [][NextClaims]_vars

(***************************************************************************)
(* SpecCooldown: the cooldown registry of one belief store                 *)
(***************************************************************************)
SetCooldown ==
    \E kt \in CooldownTargets, ms \in Durations :
        /\ cooldowns' = setCooldown(cooldowns, kt[1], kt[2], ms, now)
        /\ cdSet' = [cdSet EXCEPT ![FullKey(kt[1], kt[2])] =
                                     [set |-> TRUE, at |-> now, ms |-> ms]]
        /\ UNCHANGED <<extVars, now, beliefVars, planVars, loopVars, handoffVars, storeVars, optionVars>>

IsOnCooldown ==
    \E kt \in CooldownTargets :
        /\ cooldowns' = isOnCooldownPrune(cooldowns, kt[1], kt[2], now)
        /\ UNCHANGED <<extVars, now, cdSet, beliefVars, planVars, loopVars, handoffVars, storeVars, optionVars>>

ClearCooldown ==
    \E kt \in CooldownTargets :
        /\ cooldowns' = clearCooldown(cooldowns, kt[1], kt[2])
        /\ cdSet' = [cdSet EXCEPT ![FullKey(kt[1], kt[2])] = NoCd]
        /\ UNCHANGED <<extVars, now, beliefVars, planVars, loopVars, handoffVars, storeVars, optionVars>>

TickCooldown == Tick /\ UNCHANGED <<extVars, beliefVars, cooldownVars, planVars, loopVars, handoffVars, storeVars, optionVars>>

NextCooldown ==
    \/ SetCooldown
    \/ IsOnCooldown
    \/ ClearCooldown
    \/ TickCooldown

SpecCooldown == Init /\ [][NextCooldown]_vars

(***************************************************************************)
(* SpecPlan: one agent executing pickup and delivery plans on the corridor *)
(***************************************************************************)
ApplyPlan(r) ==
    /\ pos' = r.pos
    /\ carriedIds' = r.carriedIds
    /\ ground' = r.ground
    /\ beliefFree' = r.beliefFree
    /\ plan' = r.plan
    /\ ppc' = r.ppc
    /\ attempt' = r.attempt
    /\ retries' = r.retries
    /\ planStopped' = r.planStopped
    /\ moverStopped' = r.moverStopped
    /\ result' = r.result
    /\ hist' = r.hist
    /\ cooldowns' = r.cooldowns
    /\ claims' = r.claims
    /\ UNCHANGED <<extVars, now, usePddl, regTime, cdSet, loopVars, handoffVars, storeVars, optionVars>>

Running == ppc \notin {"idle", "done"}

PickUpPredicates ==
    {[desire |-> "go_pick_up", tx |-> ParcelCell(TargetParcel), id |-> TargetParcel,
      score |-> 0]}

DeliverPredicates ==
    {[desire |-> "go_deliver", tx |-> c, id |-> "deliver", score |-> 0] : c \in DeliveryCells}

InitPlan ==
    /\ now = 0
    /\ InitBelief
    /\ cooldowns = [k \in PlanFullKeys |-> 0]
    /\ cdSet = [k \in FullKeys |-> NoCd]
    /\ usePddl \in BOOLEAN
    /\ pos \in Cells
    /\ carriedIds = {}
    /\ ground = {}
    /\ beliefFree = {}
    /\ plan = NoPlan
    /\ ppc = "idle"
    /\ attempt = 0
    /\ retries = 0
    /\ planStopped = FALSE
    /\ moverStopped = FALSE
    /\ result = "none"
    /\ hist = NoHist
    /\ InitOptionsIdle
    /\ InitExtIdle
    /\ InitLoopIdle
    /\ InitHandoffIdle
    /\ InitStoreIdle

StartPickUp ==
    /\ ~Running
    /\ \E pred \in PickUpPredicates : ApplyPlan(GoPickUpExecute(PlanState, pred))

StartDeliver ==
    /\ ~Running
    /\ \E pred \in DeliverPredicates : ApplyPlan(GoDeliverExecute(PlanState, pred))

SolverAnswers ==
    /\ ppc = "planning"
    /\ \E found \in BOOLEAN : ApplyPlan(SolverReturns(PlanState, found))

MoveOk ==
    /\ ppc = "moving"
    /\ ApplyPlan(MoveSucceeded(PlanState))

MoveBlocked ==
    /\ ppc = "moving"
    /\ ApplyPlan(MoveFailed(PlanState))

MoveBlockedByFriend ==
    /\ ppc = "moving"
    /\ ~usePddl
    /\ \E commReady \in BOOLEAN : ApplyPlan(MoveFailedByFriend(PlanState, commReady))

MicroRetry ==
    /\ ppc = "microsleep"
    /\ ApplyPlan(MicroWake(PlanState))

BfsRetry ==
    /\ ppc = "bfsBackoff"
    /\ ApplyPlan(BfsWake(PlanState))

PlanRetry ==
    /\ ppc = "backoff"
    /\ ApplyPlan(BackoffWake(PlanState))

PickupAnswers ==
    /\ ppc = "pickup"
    /\ ApplyPlan(PickupResolves(PlanState))

PutdownAnswers ==
    /\ ppc = "putdown"
    /\ ApplyPlan(PutdownResolves(PlanState))

\* Intention.stop() -> currentPlan.stop(): the plan's flag only
StopPlan ==
    /\ Running
    /\ ~planStopped
    /\ planStopped' = TRUE
    /\ UNCHANGED <<extVars, now, beliefVars, cooldownVars, usePddl, pos, carriedIds, ground,
                   beliefFree, plan, ppc, attempt, retries, moverStopped, result,
                   hist, loopVars, handoffVars, storeVars, optionVars>>

\* A parcel appears on its cell
ParcelSpawns ==
    \E p \in ParcelIds :
        /\ p \notin ground \cup carriedIds
        /\ ground' = ground \cup {p}
        /\ UNCHANGED <<extVars, now, beliefVars, cooldownVars, usePddl, pos, carriedIds,
                       beliefFree, plan, ppc, attempt, retries, planStopped,
                       moverStopped, result, hist, loopVars, handoffVars, storeVars, optionVars>>

\* Another agent takes a parcel from the ground
OtherTakes ==
    \E p \in ground :
        /\ ground' = ground \ {p}
        /\ UNCHANGED <<extVars, now, beliefVars, cooldownVars, usePddl, pos, carriedIds,
                       beliefFree, plan, ppc, attempt, retries, planStopped,
                       moverStopped, result, hist, loopVars, handoffVars, storeVars, optionVars>>

\* onParcels: a parcel in view is added to belief, one seen gone or not seen
\* for 2000 ms leaves it
SenseParcel ==
    \E p \in ParcelIds, seen \in BOOLEAN :
        /\ seen => p \in ground
        /\ beliefFree' = IF seen THEN beliefFree \cup {p} ELSE beliefFree \ {p}
        /\ beliefFree' # beliefFree
        /\ hist' = [hist EXCEPT !.absentAll = @ /\ plan.id \notin beliefFree']
        /\ UNCHANGED <<extVars, now, beliefVars, cooldownVars, usePddl, pos, carriedIds,
                       ground, plan, ppc, attempt, retries, planStopped,
                       moverStopped, result, loopVars, handoffVars, storeVars, optionVars>>

\* The friend's INTENTION message registers its claim
FriendClaims ==
    \E sc \in Scores :
        /\ claims' = registerClaim(claims, FriendId,
                                   <<"go_pick_up", ParcelCell(TargetParcel), 0,
                                     TargetParcel, sc>>, now)
        /\ claims' # claims
        /\ UNCHANGED <<extVars, now, regTime, cooldownVars, planVars, loopVars, handoffVars, storeVars, optionVars>>

\* The clock advances.  Until a cooldown is set the plans read no timestamp,
\* so the clock is left at rest until then.
TickPlan ==
    /\ \E k \in PlanFullKeys : cooldowns[k] # 0
    /\ \E t \in PlanTimePoints : t > now /\ now' = t
    /\ UNCHANGED <<extVars, beliefVars, cooldownVars, planVars, loopVars, handoffVars, storeVars, optionVars>>

NextPlan ==
    \/ StartPickUp
    \/ StartDeliver
    \/ SolverAnswers
    \/ MoveOk
    \/ MoveBlocked
    \/ MoveBlockedByFriend
    \/ MicroRetry
    \/ BfsRetry
    \/ PlanRetry
    \/ PickupAnswers
    \/ PutdownAnswers
    \/ StopPlan
    \/ ParcelSpawns
    \/ OtherTakes
    \/ SenseParcel
    \/ FriendClaims
    \/ TickPlan

SpecPlan == InitPlan /\ [][NextPlan]_vars

(***************************************************************************)
(* SpecLoop: one agent's intention loop, with perception, requests and the *)
(* coordination protocol acting on its queue.  SpecLoopFair adds what the  *)
(* event loop guarantees: timers fire and a started plan settles.  The     *)
(* arrival of the partner's protocol messages is not guaranteed.           *)
(***************************************************************************)
Phases ==
    {"PROTOCOL_YIELD", "PROTOCOL_RELEASE", "PROTOCOL_ACQUIRE", "PROTOCOL_END",
     "PROTOCOL_STUCK"}

ApplyAgent(r) ==
    /\ intentions' = r.intentions
    /\ ints' = r.ints
    /\ coordinationMode' = r.coordinationMode
    /\ cooldownLeft' = r.cooldownLeft

InitLoop ==
    /\ now = 0
    /\ InitBelief
    /\ InitCooldown
    /\ InitPlanIdle
    /\ InitOptionsIdle
    /\ InitExtIdle
    /\ InitLoopIdle
    /\ InitHandoffIdle
    /\ InitStoreIdle

\* achieve() of a stopped intention throws before any plan is tried; the
\* rejection reaches the loop before any other callback runs.
Rejecting == lpc = "achieving" /\ ints[awaited].st # "running"

\* A setTimeout of the loop fires (50 ms)
LoopWake ==
    /\ lpc # "top"
    /\ ~LoopSuspended(lpc)
    /\ lpc' = "top"
    /\ UNCHANGED <<extVars, now, beliefVars, cooldownVars, planVars, handoffVars, storeVars, optionVars, intentions, ints,
                   awaited, coordinationMode, cooldownLeft, failedPending,
                   handoffs>>

\* One iteration of while (true), up to its next await
LoopTop ==
    /\ lpc = "top"
    /\ IF isInHandoff(AgentState)
       THEN /\ lpc' = "freeze"
            /\ UNCHANGED <<intentions, ints, awaited, coordinationMode,
                           cooldownLeft, failedPending>>
       ELSE \E useful \in BOOLEAN, choice \in Predicates :
              LET a == IF Len(intentions) = 0
                       THEN optionsGeneration(AgentState, awaited, useful, choice)
                       ELSE AgentState
                  h == a.intentions[1]
              IN IF Len(a.intentions) = 0
                 THEN /\ ApplyAgent(a)
                      /\ lpc' = "sleep"
                      /\ failedPending' = FALSE
                      /\ UNCHANGED awaited
                 ELSE /\ ApplyAgent(IF a.ints[h].stopped
                                    THEN a
                                    ELSE [a EXCEPT !.ints[h].st = "running"])
                      /\ lpc' = "achieving"
                      /\ awaited' = h
                      /\ failedPending' = FALSE
    /\ UNCHANGED <<extVars, now, beliefVars, cooldownVars, planVars, handoffVars, storeVars, optionVars, handoffs>>

\* The awaited achieve() settles; a pickup or delivery that succeeded has
\* called optionsGeneration before returning; then intentions.shift().
PlanSettles ==
    /\ lpc = "achieving"
    /\ \E success \in BOOLEAN, useful \in BOOLEAN, choice \in Predicates :
          /\ Rejecting => ~success
          /\ LET d == ints[awaited].predicate.desire
                 a0 == [AgentState EXCEPT !.ints[awaited].st = "settled"]
                 a1 == IF success /\ d \in {"go_pick_up", "go_deliver"}
                       THEN optionsGeneration(a0, awaited, useful, choice)
                       ELSE a0
                 a2 == [a1 EXCEPT
                          !.intentions = IF Len(@) > 0 THEN Tail(@) ELSE @]
             IN /\ ApplyAgent(Collect(a2, 0))
                /\ failedPending' = IF success THEN failedPending ELSE TRUE
    /\ lpc' = "sleep"
    /\ awaited' = 0
    /\ UNCHANGED <<extVars, now, beliefVars, cooldownVars, planVars, handoffVars, storeVars, optionVars, handoffs>>

\* onYou / onParcels / onAgents: the launcher calls optionsGeneration
Perceive ==
    /\ \E useful \in BOOLEAN, choice \in Predicates :
          /\ ApplyAgent(optionsGeneration(AgentState, awaited, useful, choice))
          /\ <<intentions, ints>>' # <<intentions, ints>>
    /\ ~Rejecting
    /\ UNCHANGED <<extVars, now, beliefVars, cooldownVars, planVars, handoffVars, storeVars, optionVars, lpc, awaited,
                   failedPending, handoffs>>

\* Comm._handleRequest: me.carried >= capacity
capacityFull(carriedNow, capacity) == carriedNow >= capacity

\* Comm._handleRequest: intentionCount >= 2
tooBusy(a) == Len(a.intentions) >= 2

InQueue(a, predicate) ==
    \E k \in 1..Len(a.intentions) : a.ints[a.intentions[k]].predicate = predicate

\* Comm._handleRequest of a valid REQUEST of the partner passes its checks
\* and sends AGREE: await adapter.say
RequestAccepted ==
    /\ ~tooBusy(AgentState)
    /\ \E q \in RequestPredicates, carriedNow \in 0..(Capacity - 1) :
          /\ ~capacityFull(carriedNow, Capacity)
          /\ q \notin agreed
          /\ agreed' = agreed \cup {q}
    /\ ~Rejecting
    /\ UNCHANGED <<now, beliefVars, cooldownVars, planVars, handoffVars, storeVars,
                   optionVars, commVars, mergeVars, pathVars, cacheVars, detectVars, carryVars, raceVars, frozenActs,
                   loopVars, replied>>

\* Comm._handleRequest resumes after the AGREE: me.push(intention, false)
AgreeSent ==
    /\ \E q \in agreed :
          /\ agreed' = agreed \ {q}
          /\ ApplyAgent(push(AgentState, q, FALSE))
          /\ replied' = [header |-> "AGREE",
                         queued |-> InQueue(push(AgentState, q, FALSE), q)]
    /\ ~Rejecting
    /\ UNCHANGED <<now, beliefVars, cooldownVars, planVars, handoffVars, storeVars,
                   optionVars, commVars, mergeVars, pathVars, cacheVars, detectVars, carryVars, raceVars, frozenActs,
                   lpc, awaited, failedPending, handoffs>>

\* Comm._handleRequest refuses: capacity_full or too_busy
RequestRefused ==
    /\ \E carriedNow \in 0..Capacity :
          capacityFull(carriedNow, Capacity) \/ tooBusy(AgentState)
    /\ replied' = [header |-> "REFUSE", queued |-> FALSE]
    /\ replied' # replied
    /\ UNCHANGED <<now, beliefVars, cooldownVars, planVars, handoffVars, storeVars,
                   optionVars, commVars, mergeVars, pathVars, cacheVars, detectVars, carryVars, raceVars, frozenActs,
                   loopVars, agreed>>

\* Comm.beginCoordinationProtocol; an empty-handed initiator yields at once
\* and, finding no free cell, resets (stays = FALSE).
BeginCoordination ==
    /\ ~isInHandoff(AgentState)
    /\ handoffs < MaxHandoffs
    /\ handoffs' = handoffs + 1
    /\ \E stays \in BOOLEAN :
          LET a == stopAndClear(setHandoffState(AgentState, TRUE), awaited)
          IN ApplyAgent(IF stays THEN a ELSE setHandoffState(a, FALSE))
    /\ ~Rejecting
    /\ UNCHANGED <<extVars, now, beliefVars, cooldownVars, planVars, handoffVars, storeVars, optionVars, lpc, awaited,
                   failedPending>>

\* Comm._handleHandoff on a protocol message of the partner: coordination
\* mode is entered, the phase handled; it ends in a reset or in a message
\* to the partner with the mode kept (goesOn).
HandoffMessage ==
    /\ ~coordinationMode => handoffs < MaxHandoffs
    /\ handoffs' = IF coordinationMode THEN handoffs ELSE handoffs + 1
    /\ \E phase \in Phases, goesOn \in BOOLEAN :
          LET a == setHandoffState(AgentState, TRUE)
          IN /\ phase \in {"PROTOCOL_END", "PROTOCOL_STUCK"} => ~goesOn
             /\ ApplyAgent(
                  IF phase = "PROTOCOL_ACQUIRE"
                  THEN setHandoffState(IF goesOn THEN stopAndClear(a, awaited) ELSE a,
                                       FALSE)
                  ELSE IF goesOn THEN a ELSE setHandoffState(a, FALSE))
    /\ ~Rejecting
    /\ UNCHANGED <<extVars, now, beliefVars, cooldownVars, planVars, handoffVars, storeVars, optionVars, lpc, awaited,
                   failedPending>>

\* 3000 ms have passed since the coordination state was left
CooldownElapses ==
    /\ cooldownLeft > 0
    /\ cooldownLeft' = 0
    /\ UNCHANGED <<extVars, now, beliefVars, cooldownVars, planVars, handoffVars, storeVars, optionVars, intentions, ints, lpc,
                   awaited, coordinationMode, failedPending, handoffs>>

\* The plan of the awaited intention, not stopped, issues its next primitive
\* action (GoPickUp.execute: mover.execute, adapter.pickup)
PlanActs ==
    /\ lpc = "achieving"
    /\ ints[awaited].st = "running"
    /\ ~ints[awaited].stopped
    /\ frozenActs' = (frozenActs \/ coordinationMode)
    /\ UNCHANGED <<now, beliefVars, cooldownVars, planVars, loopVars, handoffVars,
                   storeVars, optionVars, commVars, mergeVars, pathVars, cacheVars, requestVars, detectVars, carryVars, raceVars>>

NextLoop ==
    \/ LoopWake
    \/ PlanActs
    \/ LoopTop
    \/ PlanSettles
    \/ Perceive
    \/ RequestAccepted
    \/ AgreeSent
    \/ RequestRefused
    \/ BeginCoordination
    \/ HandoffMessage
    \/ CooldownElapses

SpecLoop == InitLoop /\ [][NextLoop]_vars

SpecLoopFair ==
    /\ SpecLoop
    /\ WF_vars(LoopWake)
    /\ WF_vars(LoopTop)
    /\ WF_vars(PlanSettles)
    /\ WF_vars(CooldownElapses)

(***************************************************************************)
(* SpecHandoff: the two agents stand next to each other in the corridor,   *)
(* A behind B as seen from the delivery cell, and B with a free cell on   *)
(* its other side; either starts the protocol.                             *)
(* Messages arrive in order or are lost.                                   *)
(***************************************************************************)
ApplyHandoff(r) ==
    /\ agentPos' = r.agentPos
    /\ carried' = r.carried
    /\ parcelHolder' = r.parcelHolder
    /\ parcelCell' = r.parcelCell
    /\ coordination' = r.coordination
    /\ coolingDown' = r.coolingDown
    /\ inbox' = r.inbox
    /\ friendSeen' = r.friendSeen
    /\ parcelSeen' = r.parcelSeen

InitHandoff ==
    /\ now = 0
    /\ InitBelief
    /\ InitCooldown
    /\ InitPlanIdle
    /\ InitOptionsIdle
    /\ InitExtIdle
    /\ InitLoopIdle
    /\ \E b \in 1..(MaxCorridor - 1) : InitHandoffAt(b)
    /\ InitStoreIdle

\* The identifiers of the two agents: A has the lower one
HandoffAgentId(ag) == IF ag = "A" THEN MyId ELSE FriendId

\* launcher.js onAgents (corridor deadlock): the agent with the lower id
\* calls comm.initiateHandoff
BeginHandoff ==
    \E ag \in HandoffAgents :
        /\ ag \notin began
        /\ ~agentInHandoff(HandoffState, ag)
        /\ LexLess(HandoffAgentId(ag), HandoffAgentId(Other(ag)))
        /\ ApplyHandoff(beginCoordinationProtocol(HandoffState, ag))
        /\ began' = began \cup {ag}
        /\ UNCHANGED <<extVars, now, beliefVars, cooldownVars, planVars, loopVars, storeVars, optionVars, lost>>

\* MoveBfs.execute: the move onto the cell the friend is believed on fails,
\* _triggerCoordination calls comm.beginCoordinationProtocol
TriggerCoordination ==
    \E ag \in HandoffAgents :
        /\ ag \notin began
        /\ ~agentInHandoff(HandoffState, ag)
        /\ Abs(agentPos[ag] - friendSeen[ag]) = 1
        /\ ~CanMove(HandoffState, ag, friendSeen[ag])
        /\ ApplyHandoff(beginCoordinationProtocol(HandoffState, ag))
        /\ began' = began \cup {ag}
        /\ UNCHANGED <<extVars, now, beliefVars, cooldownVars, planVars, loopVars, storeVars, optionVars, lost>>

\* Comm._handleMessage: a HANDOFF message reaches _handleHandoff
ReceiveHandoff ==
    \E ag \in HandoffAgents, bySign \in BOOLEAN :
        /\ inbox[ag] # <<>>
        /\ ApplyHandoff(handleHandoff([HandoffState EXCEPT !.inbox[ag] = Tail(@)],
                                      ag, Head(inbox[ag]), bySign))
        /\ UNCHANGED <<extVars, now, beliefVars, cooldownVars, planVars, loopVars, storeVars, optionVars, began, lost>>

\* A message never arrives
LoseMessage ==
    \E ag \in HandoffAgents :
        /\ ~lost
        /\ inbox[ag] # <<>>
        /\ inbox' = [inbox EXCEPT ![ag] = Tail(@)]
        /\ lost' = TRUE
        /\ UNCHANGED <<extVars, now, beliefVars, cooldownVars, planVars, loopVars, storeVars, optionVars, agentPos,
                       carried, parcelHolder, parcelCell, coordination, coolingDown,
                       friendSeen, parcelSeen, began>>

\* onAgents: the friend is seen where it stands
SenseAgents ==
    \E ag \in HandoffAgents :
        /\ friendSeen[ag] # agentPos[Other(ag)]
        /\ friendSeen' = [friendSeen EXCEPT ![ag] = agentPos[Other(ag)]]
        /\ UNCHANGED <<extVars, now, beliefVars, cooldownVars, planVars, loopVars, storeVars, optionVars, agentPos,
                       carried, parcelHolder, parcelCell, coordination, coolingDown,
                       inbox, parcelSeen, began, lost>>

\* onParcels: a parcel on the ground is seen where it lies, a carried one
\* is no free parcel
SenseParcels ==
    \E ag \in HandoffAgents :
        /\ parcelSeen[ag] # parcelCell
        /\ parcelSeen' = [parcelSeen EXCEPT ![ag] = parcelCell]
        /\ UNCHANGED <<extVars, now, beliefVars, cooldownVars, planVars, loopVars, storeVars, optionVars, agentPos,
                       carried, parcelHolder, parcelCell, coordination, coolingDown,
                       inbox, friendSeen, began, lost>>

NextHandoff ==
    \/ BeginHandoff
    \/ TriggerCoordination
    \/ ReceiveHandoff
    \/ LoseMessage
    \/ SenseAgents
    \/ SenseParcels

SpecHandoff == InitHandoff /\ [][NextHandoff]_vars

(***************************************************************************)
(* SpecStore: the parcel store of one belief, fed by sensing and by the    *)
(* friend's parcel messages, and read by getFreeParcels.                   *)
(***************************************************************************)
InitStore ==
    /\ now = 0
    /\ InitBelief
    /\ InitCooldown
    /\ InitPlanIdle
    /\ InitOptionsIdle
    /\ InitExtIdle
    /\ InitLoopIdle
    /\ InitHandoffIdle
    /\ parcels = [id \in StoreIds |-> NoParcel]
    /\ lossForSecond \in LossRates
    /\ freeParcels = [id \in StoreIds |-> NotReturned]
    /\ freeBefore = [id \in StoreIds |-> NotReturned]
    /\ freeAt = 0

\* Belief.syncParcels with one sensed parcel
SyncParcels ==
    \E id \in StoreIds, r \in Rewards, c \in BOOLEAN :
        /\ parcels' = checkExpiredParcels(
                [parcels EXCEPT ![id] = [stored |-> TRUE, observedReward |-> r,
                                         timestamp |-> now, carriedBy |-> c]],
                lossForSecond, now)
        /\ UNCHANGED <<extVars, now, beliefVars, cooldownVars, planVars, loopVars, handoffVars, optionVars,
                       lossForSecond, freeParcels, freeBefore, freeAt>>

\* Belief.mergeRemoteParcels with one parcel of the friend; ts = 0 stands
\* for a message without timestamp
MergeRemoteParcels ==
    \E id \in StoreIds, r \in Rewards, c \in BOOLEAN, ts \in StoreTimePoints :
        /\ ~parcels[id].stored \/ (ts # 0 /\ ts > parcels[id].timestamp)
        /\ parcels' = [parcels EXCEPT ![id] =
                         [stored |-> TRUE, observedReward |-> r,
                          timestamp |-> IF ts # 0 THEN ts ELSE now, carriedBy |-> c]]
        /\ UNCHANGED <<extVars, now, beliefVars, cooldownVars, planVars, loopVars, handoffVars, optionVars,
                       lossForSecond, freeParcels, freeBefore, freeAt>>

\* Belief.getFreeParcels
GetFreeParcels ==
    /\ parcels' = checkExpiredParcels(parcels, lossForSecond, now)
    /\ freeParcels' = getFreeParcels(parcels', lossForSecond, now)
    /\ freeBefore' = freeParcels
    /\ freeAt' = now
    /\ UNCHANGED <<extVars, now, beliefVars, cooldownVars, planVars, loopVars, handoffVars, optionVars,
                   lossForSecond>>

TickStore ==
    /\ \E t \in StoreTimePoints : t > now /\ now' = t
    /\ UNCHANGED <<extVars, beliefVars, cooldownVars, planVars, loopVars, handoffVars, storeVars, optionVars>>

NextStore ==
    \/ SyncParcels
    \/ MergeRemoteParcels
    \/ GetFreeParcels
    \/ TickStore

SpecStore == InitStore /\ [][NextStore]_vars

(***************************************************************************)
(* SpecOptions: optionsGeneration on a one-row map.  The agent stands on   *)
(* cell 0; scores are in ScoreUnit-ths so that the averaged contention     *)
(* penalty stays an integer.                                               *)
(***************************************************************************)
OptionFullKeys ==
    {FullKey("parcel", id) : id \in ParcelIds \cup {"explore"}}
        \cup {FullKey("delivery", CellKey(d)) : d \in Positions}

\* The sets of targets on cooldown at the start
CooledChoices ==
    {{}, {FullKey("parcel", "p1")}, {FullKey("parcel", "explore")},
     {FullKey("delivery", CellKey(1))},
     {FullKey("delivery", CellKey(1)), FullKey("delivery", CellKey(MaxPos))}}

FreeParcel(id, x, reward) == [id |-> id, x |-> x, reward |-> reward]

\* belief.getFreeParcels(): p1 next to the agent or at the far end, p2 between
FreeChoices ==
    {p1 \o p2 :
        p1 \in {<<>>} \cup {<<FreeParcel("p1", x, 10)>> : x \in {1, MaxPos}},
        p2 \in {<<>>, <<FreeParcel("p2", MaxPos - 1, 1)>>}}

\* A claim of the partner on p1 that outranks every score of the agent
FriendClaim ==
    registerClaim(<<>>, FriendId,
                  <<"go_pick_up", 0, 0, "p1", 100 * ScoreUnit>>, 0)

QueuedChoices ==
    {<<>>, <<Goal("go_random", 0, "rnd", 0)>>, <<Goal("go_deliver", 0, "deliver", 0)>>}

World ==
    [me |-> me, free |-> free, deliveryZones |-> deliveryZones,
     parcelSpawners |-> parcelSpawners, otherAgents |-> otherAgents,
     cooldowns |-> cooldowns, claims |-> claims, now |-> now]

QueuedPredicates(a) ==
    [k \in 1..Len(a.intentions) |-> a.ints[a.intentions[k]].predicate]

InitOptions ==
    /\ now = 0
    /\ claims \in {<<>>, FriendClaim}
    /\ \E cooled \in CooledChoices :
          cooldowns = [k \in OptionFullKeys |->
                          IF k \in cooled THEN COOLDOWN_MS ELSE 0]
    /\ regTime = [a \in AgentIds |-> -1]
    /\ cdSet = NoCd
    /\ InitPlanIdle
    /\ InitHandoffIdle
    /\ InitStoreIdle
    /\ InitExtIdle
    /\ \E queued \in QueuedChoices :
          /\ intentions = [k \in 1..Len(queued) |-> k]
          /\ ints = [i \in IntentionIds |->
                        IF i <= Len(queued)
                        THEN [predicate |-> queued[i], stopped |-> FALSE,
                              st |-> "queued"]
                        ELSE FreeSlot]
    /\ lpc = "sleep"
    /\ awaited = 0
    /\ coordinationMode = FALSE
    /\ cooldownLeft = 0
    /\ failedPending = FALSE
    /\ handoffs = 0
    /\ \E c \in 0..1, loss \in 0..1 :
          me = [x |-> 0, carried |-> c, carriedReward |-> c, capacity |-> Capacity,
                lossForMovement |-> loss]
    /\ free \in FreeChoices
    /\ deliveryZones \in {<<>>, <<1>>, <<MaxPos>>, <<1, MaxPos>>}
    /\ parcelSpawners = <<2>>
    /\ otherAgents \in {{}, {MaxPos}}
    /\ gen = NoGen

\* optionsGeneration(), the whole call
Generate ==
    LET a == AgentState
        head == IF Len(intentions) > 0 THEN ints[intentions[1]].predicate.desire
                ELSE "none"
        useful == ~(me.carried = 0 /\ Len(free) = 0)
        decides == head = "none" \/ (head = "go_random" /\ useful)
        opt == IF decides THEN chooseOption(World) ELSE NoOption
        b == optionsGeneration(a, 0, useful, opt.goal)
        shifted == IF decides /\ head # "none" THEN 1 ELSE 0
    IN /\ ApplyAgent(b)
       /\ claims' = IF opt.claimed
                    THEN registerClaim(getClaims(claims, now), MyId,
                                       <<"go_pick_up", opt.goal.x, 0, opt.goal.id,
                                         opt.goal.score>>, now)
                    ELSE claims
       /\ gen' = [ran |-> TRUE, head |-> head, useful |-> useful,
                  inHandoff |-> isInHandoff(a),
                  before |-> QueuedPredicates(a), after |-> QueuedPredicates(b),
                  pushed |-> Len(b.intentions) - (Len(a.intentions) - shifted),
                  opt |-> opt]
       /\ UNCHANGED <<extVars, now, cooldowns, regTime, cdSet, lpc, awaited, failedPending,
                      handoffs, me, free, deliveryZones, parcelSpawners,
                      otherAgents, planVars, handoffVars, storeVars>>

\* comm.js _handleRequest: the partner asks for a parcel to be fetched
AcceptRequest ==
    \E k \in 1..Len(free) :
        /\ me.carried < me.capacity
        /\ Len(intentions) < 2
        /\ ApplyAgent(push(AgentState,
                           Goal("go_pick_up", free[k].x, free[k].id,
                                free[k].reward * ScoreUnit), FALSE))
        /\ UNCHANGED <<extVars, now, beliefVars, cooldownVars, lpc, awaited, failedPending,
                       handoffs, optionVars, planVars, handoffVars, storeVars>>

\* beginCoordinationProtocol: the agent enters the coordination mode
EnterCoordination ==
    /\ ~isInHandoff(AgentState)
    /\ ApplyAgent(stopAndClear(setHandoffState(AgentState, TRUE), 0))
    /\ UNCHANGED <<extVars, now, beliefVars, cooldownVars, lpc, awaited, failedPending,
                   handoffs, optionVars, planVars, handoffVars, storeVars>>

\* resetCoordination: setHandoffState(false)
LeaveCoordination ==
    /\ coordinationMode
    /\ ApplyAgent(setHandoffState(AgentState, FALSE))
    /\ UNCHANGED <<extVars, now, beliefVars, cooldownVars, lpc, awaited, failedPending,
                   handoffs, optionVars, planVars, handoffVars, storeVars>>

\* The timer of setHandoffState(false) fires
HandoffCooldownEnds ==
    /\ cooldownLeft > 0
    /\ cooldownLeft' = 0
    /\ UNCHANGED <<extVars, now, beliefVars, cooldownVars, intentions, ints,
                   coordinationMode, lpc, awaited, failedPending,
                   handoffs, optionVars, planVars, handoffVars, storeVars>>

NextOptions ==
    \/ Generate
    \/ AcceptRequest
    \/ EnterCoordination
    \/ LeaveCoordination
    \/ HandoffCooldownEnds

SpecOptions == InitOptions /\ [][NextOptions]_vars

(***************************************************************************)
(* SpecComm: the communication module of one agent.  Messages of any       *)
(* header arrive from the other agents of the game at any time; the        *)
(* launcher and the plans try to send and to start the coordination        *)
(* protocol at any time.                                                   *)
(***************************************************************************)
Senders == AgentIds \ {MyId}

\* The headers that have a handler
Vocabulary ==
    {"HANDSHAKE", "INFO_PARCELS", "INFO_AGENTS", "INTENTION", "COMPLETE", "REQUEST",
     "HANDOFF"}

\* "": a message without header
Headers == Vocabulary \cup {"UNKNOWN", ""}

\* The headers of the coordination features
Coordinated == {"INFO_PARCELS", "INFO_AGENTS", "INTENTION", "REQUEST", "HANDOFF"}

RemoteTimestamps == {1000}

NoContent ==
    [phase |-> "", id |-> MyId, timestamp |-> 0, goesOn |-> FALSE]

\* The contents a message of the header comes with
Contents(header) ==
    CASE header = "HANDSHAKE" ->
            {[NoContent EXCEPT !.phase = p] : p \in {"request", "ack"}}
      [] header = "INFO_PARCELS" ->
            {[NoContent EXCEPT !.timestamp = ts] : ts \in RemoteTimestamps}
      [] header = "INFO_AGENTS" ->
            {[NoContent EXCEPT !.id = a, !.timestamp = ts] :
                a \in {MyId, FriendId}, ts \in RemoteTimestamps}
      [] header = "HANDOFF" ->
            {[NoContent EXCEPT !.phase = p, !.goesOn = g] :
                p \in Phases, g \in BOOLEAN}
      [] OTHER -> {NoContent}

RemoteParcel(ts) == [id |-> "p1", reward |-> 1, timestamp |-> ts, carriedBy |-> FALSE]

RemoteAgent(id, ts) == [id |-> id, x |-> 1, timestamp |-> ts]

RemoteIntention == <<"go_pick_up", 1, 0, "p1", 1>>

RequestedGoal == [desire |-> "go_pick_up", id |-> "p1"]

InitComm ==
    /\ now = 0
    /\ InitBelief
    /\ InitCooldown
    /\ InitPlanIdle
    /\ InitOptionsIdle
    /\ InitLoopIdle
    /\ InitHandoffIdle
    /\ InitStoreIdle
    /\ InitPathIdle
    /\ frozenActs = FALSE
    /\ InitRaceIdle
    /\ InitCarryIdle
    /\ InitDetectIdle
    /\ InitRequestIdle
    /\ InitCacheIdle
    /\ isSecondAgent \in BOOLEAN
    /\ friendId = NoFriend
    /\ handshakeCompleted = FALSE
    /\ ackAwaited = {}
    /\ sent = NoHeader
    /\ refused = FALSE
    /\ commHist = NoCommHist
    /\ agents = [id \in AgentIds |-> NoAgent]
    /\ ownId = MyId
    /\ seenAt = [agent |-> [id \in AgentIds |-> 0], parcel |-> [id \in StoreIds |-> 0]]
    /\ merged = NoMerge

\* Comm._handleMessage and the handler it routes the message to
ReceiveMessage ==
    \E senderId \in Senders, header \in Headers :
      \E content \in Contents(header) :
        LET c == IF header = "HANDSHAKE"
                 THEN handleHandshake(CommState, senderId, content.phase)
                 ELSE CommState
            ps == IF header = "INFO_PARCELS"
                  THEN mergeRemoteParcels(parcels, RemoteParcel(content.timestamp), now)
                  ELSE IF header = "COMPLETE" THEN removeParcel(parcels, "p1")
                  ELSE parcels
            ag == IF header = "INFO_AGENTS" /\ content.id # ownId
                  THEN mergeRemoteAgents(agents, RemoteAgent(content.id, content.timestamp),
                                         ownId, now)
                  ELSE agents
            cl == IF header = "INTENTION"
                  THEN registerClaim(claims, senderId, RemoteIntention, now)
                  ELSE claims
            cd == IF header = "COMPLETE"
                  THEN clearCooldown(cooldowns, "parcel", "p1")
                  ELSE cooldowns
            handoff == header = "HANDOFF" /\ isReady(CommState)
            a == IF header = "REQUEST" /\ requestAccepted(CommState, AgentState, senderId)
                 THEN push(AgentState, RequestedGoal, FALSE)
                 ELSE IF handoff
                 THEN handleHandoffPhase(AgentState, content.phase, content.goesOn, awaited)
                 ELSE AgentState
            answers == header = "HANDSHAKE" /\ content.phase = "request" /\ ~isSecondAgent
        IN /\ friendId' = c.friendId
           /\ handshakeCompleted' = c.handshakeCompleted
           /\ ackAwaited' = c.ackAwaited
           /\ parcels' = ps
           /\ agents' = ag
           /\ claims' = cl
           /\ cooldowns' = cd
           /\ ApplyAgent(a)
           /\ sent' = IF handoff /\ content.phase \in
                            {"PROTOCOL_YIELD", "PROTOCOL_RELEASE", "PROTOCOL_ACQUIRE"}
                      THEN "HANDOFF" ELSE sent
           /\ refused' = (refused \/ (header = "HANDOFF" /\ ~handoff))
           /\ commHist' =
                [rebound |-> commHist.rebound
                             \/ (friendId # NoFriend /\ c.friendId # friendId),
                 answered |-> commHist.answered \/ (friendId # NoFriend /\ answers),
                 last |-> [handled |-> TRUE,
                           foreign |-> senderId # friendId \/ header \notin Vocabulary,
                           changed |-> \/ ps # parcels
                                       \/ ag # agents
                                       \/ cl # claims
                                       \/ a.intentions # intentions
                                       \/ a.coordinationMode # coordinationMode
                                       \/ a.cooldownLeft # cooldownLeft]]
           /\ UNCHANGED <<now, regTime, cdSet, planVars, handoffVars, optionVars, pathVars, cacheVars, requestVars, detectVars, carryVars, raceVars,
                          frozenActs, lossForSecond, freeParcels, freeBefore, freeAt,
                          lpc, awaited, failedPending, handoffs, isSecondAgent,
                          ownId, seenAt, merged>>

\* _handleHandshake resumes after say(ack)
AckSent ==
    \E s \in ackAwaited :
        /\ ackAwaited' = ackAwaited \ {s}
        /\ handshakeCompleted' = TRUE
        /\ UNCHANGED <<now, beliefVars, cooldownVars, planVars, loopVars, handoffVars,
                       storeVars, optionVars, mergeVars, pathVars, cacheVars, requestVars, detectVars, carryVars, raceVars, frozenActs,
                       isSecondAgent, friendId, sent, refused, commHist>>

\* sendParcels, sendAgents, sendIntention, sendRequest
SendToPartner ==
    \E header \in Coordinated \ {"HANDOFF"} :
        /\ IF isReady(CommState)
           THEN sent' = header /\ UNCHANGED refused
           ELSE refused' = TRUE /\ UNCHANGED sent
        /\ UNCHANGED <<now, beliefVars, cooldownVars, planVars, loopVars, handoffVars,
                       storeVars, optionVars, mergeVars, pathVars, cacheVars, requestVars, detectVars, carryVars, raceVars, frozenActs,
                       isSecondAgent, friendId, handshakeCompleted, ackAwaited, commHist>>

\* Comm.initiateHandoff / beginCoordinationProtocol: a carrying initiator
\* asks the partner to yield; an empty-handed one yields at once and,
\* finding no free cell, resets (stays = FALSE).
InitiateHandoff ==
    /\ ~isInHandoff(AgentState)
    /\ IF isReady(CommState)
       THEN /\ \E stays \in BOOLEAN :
                  LET a == stopAndClear(setHandoffState(AgentState, TRUE), awaited)
                  IN ApplyAgent(IF stays THEN a ELSE setHandoffState(a, FALSE))
            /\ sent' = "HANDOFF"
            /\ UNCHANGED refused
       ELSE /\ refused' = TRUE
            /\ UNCHANGED <<sent, intentions, ints, coordinationMode, cooldownLeft>>
    /\ UNCHANGED <<now, beliefVars, cooldownVars, planVars, handoffVars, storeVars,
                   optionVars, mergeVars, pathVars, cacheVars, requestVars, detectVars, carryVars, raceVars, frozenActs, lpc, awaited,
                   failedPending, handoffs, isSecondAgent, friendId, handshakeCompleted,
                   ackAwaited, commHist>>

\* adapter.onYou: me.setValues sets me.id
OnYou ==
    /\ ownId = NoFriend
    /\ ownId' = MyId
    /\ UNCHANGED <<now, beliefVars, cooldownVars, planVars, loopVars, handoffVars,
                   storeVars, optionVars, commVars, pathVars, cacheVars, requestVars, detectVars, carryVars, raceVars, frozenActs, agents,
                   seenAt, merged>>

NextComm ==
    \/ ReceiveMessage
    \/ AckSent
    \/ SendToPartner
    \/ InitiateHandoff

SpecComm == InitComm /\ [][NextComm]_vars

(***************************************************************************)
(* SpecMerge: the two stores of one belief, fed by the agent's own sensing *)
(* and by the partner's snapshots and deltas.  seenAt keeps, for every     *)
(* stored entry, the time at which the stored observation was made; the    *)
(* own identifier is unknown until onYou.                                  *)
(***************************************************************************)
MergeTimes == {100, 200, 700}

MergedAgents == {MyId, <<2>>}

DeltaKinds == {"added", "updated", "removed"}

\* What a merge did to the entry it was about
MergeOutcome(kind, hadEntry, storedSeen, remoteSeen, hasEntry, resultSeen) ==
    [ran |-> TRUE, kind |-> kind, hadEntry |-> hadEntry, storedSeen |-> storedSeen,
     remoteSeen |-> remoteSeen, hasEntry |-> hasEntry, resultSeen |-> resultSeen]

\* The observation time of the entry a merge leaves
SeenAfter(before, after, storedSeen, remoteSeen) ==
    IF ~after.stored THEN 0 ELSE IF after = before THEN storedSeen ELSE remoteSeen

InitMerge ==
    /\ now = 100
    /\ InitBelief
    /\ InitCooldown
    /\ InitPlanIdle
    /\ InitOptionsIdle
    /\ InitLoopIdle
    /\ InitHandoffIdle
    /\ InitStoreIdle
    /\ InitCommIdle
    /\ InitPathIdle
    /\ frozenActs = FALSE
    /\ InitRaceIdle
    /\ InitCarryIdle
    /\ InitDetectIdle
    /\ InitRequestIdle
    /\ InitCacheIdle
    /\ agents = [id \in AgentIds |-> NoAgent]
    /\ ownId = NoFriend
    /\ seenAt = [agent |-> [id \in AgentIds |-> 0], parcel |-> [id \in StoreIds |-> 0]]
    /\ merged = NoMerge

\* adapter.onParcels: belief.syncParcels with one sensed parcel
ObserveParcels ==
    \E id \in StoreIds :
        /\ parcels' = checkExpiredParcels(
                [parcels EXCEPT ![id] = [stored |-> TRUE, observedReward |-> MaxReward,
                                         timestamp |-> now, carriedBy |-> FALSE]],
                lossForSecond, now)
        /\ seenAt' = [seenAt EXCEPT !.parcel[id] = IF parcels'[id].stored THEN now ELSE 0]
        /\ merged' = NoMerge
        /\ UNCHANGED <<now, beliefVars, cooldownVars, planVars, loopVars, handoffVars,
                       optionVars, commVars, pathVars, cacheVars, requestVars, detectVars, carryVars, raceVars, frozenActs, lossForSecond,
                       freeParcels, freeBefore, freeAt, agents, ownId>>

\* adapter.onAgents: belief.syncAgents(agents, me.id) with one sensed agent
ObserveAgents ==
    \E id \in MergedAgents :
        /\ agents' = syncAgents(agents, RemoteAgent(id, now), ownId, now)
        /\ seenAt' = [seenAt EXCEPT !.agent =
                        [i \in AgentIds |->
                            IF ~agents'[i].stored THEN 0
                            ELSE IF agents'[i] # agents[i] THEN now
                            ELSE seenAt.agent[i]]]
        /\ merged' = NoMerge
        /\ UNCHANGED <<now, beliefVars, cooldownVars, planVars, loopVars, handoffVars,
                       storeVars, optionVars, commVars, pathVars, cacheVars, requestVars, detectVars, carryVars, raceVars, frozenActs, ownId>>

\* comm.on('INFO_PARCELS'): belief.mergeRemoteParcels; the parcel was seen by
\* the partner at obs and carries that time or no timestamp at all
MergeParcels ==
    \E id \in StoreIds, obs \in MergeTimes, stamped \in BOOLEAN :
        /\ obs <= now
        /\ parcels' = mergeRemoteParcels(parcels,
                          RemoteParcel(IF stamped THEN obs ELSE 0), now)
        /\ seenAt' = [seenAt EXCEPT !.parcel[id] =
                        SeenAfter(parcels[id], parcels'[id], seenAt.parcel[id], obs)]
        /\ merged' = MergeOutcome("snapshot", parcels[id].stored, seenAt.parcel[id], obs,
                                  parcels'[id].stored, seenAt'.parcel[id])
        /\ UNCHANGED <<now, beliefVars, cooldownVars, planVars, loopVars, handoffVars,
                       optionVars, commVars, pathVars, cacheVars, requestVars, detectVars, carryVars, raceVars, frozenActs, lossForSecond,
                       freeParcels, freeBefore, freeAt, agents, ownId>>

\* Belief.applyParcelsDelta with a delta of one parcel the partner saw at obs
ParcelsDelta ==
    \E id \in StoreIds, obs \in MergeTimes, kind \in DeltaKinds :
        /\ obs <= now
        /\ parcels' = applyParcelsDelta(parcels, kind, RemoteParcel(obs), now)
        /\ seenAt' = [seenAt EXCEPT !.parcel[id] =
                        SeenAfter(parcels[id], parcels'[id], seenAt.parcel[id], obs)]
        /\ merged' = MergeOutcome(kind, parcels[id].stored, seenAt.parcel[id], obs,
                                  parcels'[id].stored, seenAt'.parcel[id])
        /\ UNCHANGED <<now, beliefVars, cooldownVars, planVars, loopVars, handoffVars,
                       optionVars, commVars, pathVars, cacheVars, requestVars, detectVars, carryVars, raceVars, frozenActs, lossForSecond,
                       freeParcels, freeBefore, freeAt, agents, ownId>>

\* comm.on('INFO_AGENTS'): the filter of _handleMessage, then
\* belief.mergeRemoteAgents(agents, me.id)
MergeAgents ==
    \E id \in MergedAgents, obs \in MergeTimes, stamped \in BOOLEAN :
        /\ obs <= now
        /\ agents' = IF id = ownId THEN agents
                     ELSE mergeRemoteAgents(agents,
                              RemoteAgent(id, IF stamped THEN obs ELSE 0), ownId, now)
        /\ seenAt' = [seenAt EXCEPT !.agent[id] =
                        SeenAfter(agents[id], agents'[id], seenAt.agent[id], obs)]
        /\ merged' = MergeOutcome("snapshot", agents[id].stored, seenAt.agent[id], obs,
                                  agents'[id].stored, seenAt'.agent[id])
        /\ UNCHANGED <<now, beliefVars, cooldownVars, planVars, loopVars, handoffVars,
                       storeVars, optionVars, commVars, pathVars, cacheVars, requestVars, detectVars, carryVars, raceVars, frozenActs, ownId>>

\* Belief.applyAgentsDelta(delta, myId) with a delta of one agent the partner
\* saw at obs
AgentsDelta ==
    \E id \in MergedAgents, obs \in MergeTimes, kind \in DeltaKinds :
        /\ obs <= now
        /\ agents' = applyAgentsDelta(agents, kind, RemoteAgent(id, obs), ownId, now)
        /\ seenAt' = [seenAt EXCEPT !.agent[id] =
                        SeenAfter(agents[id], agents'[id], seenAt.agent[id], obs)]
        /\ merged' = MergeOutcome(kind, agents[id].stored, seenAt.agent[id], obs,
                                  agents'[id].stored, seenAt'.agent[id])
        /\ UNCHANGED <<now, beliefVars, cooldownVars, planVars, loopVars, handoffVars,
                       storeVars, optionVars, commVars, pathVars, cacheVars, requestVars, detectVars, carryVars, raceVars, frozenActs, ownId>>

TickMerge ==
    /\ \E t \in MergeTimes : t > now /\ now' = t
    /\ UNCHANGED <<beliefVars, cooldownVars, planVars, loopVars, handoffVars, storeVars,
                   optionVars, extVars>>

NextMerge ==
    \/ OnYou
    \/ ObserveParcels
    \/ ObserveAgents
    \/ MergeParcels
    \/ ParcelsDelta
    \/ MergeAgents
    \/ AgentsDelta
    \/ TickMerge

SpecMerge == InitMerge /\ [][NextMerge]_vars

(***************************************************************************)
(* SpecPath: one path query on a small grid, answered by Grid.bfsPath or   *)
(* by the local PDDL solver, and the route applied step by step.           *)
(***************************************************************************)
WallChoices == {{}, {<<1, 1>>}}

InitPath ==
    /\ now = 0
    /\ InitBelief
    /\ InitCooldown
    /\ InitPlanIdle
    /\ InitOptionsIdle
    /\ InitLoopIdle
    /\ InitHandoffIdle
    /\ InitStoreIdle
    /\ InitCommIdle
    /\ InitMergeIdle
    /\ frozenActs = FALSE
    /\ InitRaceIdle
    /\ InitCarryIdle
    /\ InitDetectIdle
    /\ InitRequestIdle
    /\ InitCacheIdle
    /\ gridWalls \in WallChoices
    /\ queryStart \in GridCells
    /\ queryGoal \in GridCells
    /\ queryAgents \in {s \in SUBSET (GridCells \ gridWalls) : Cardinality(s) <= MaxOthers}
    /\ route = NoPath
    /\ walked = <<>>
    /\ solver = "none"

\* MoveBfs.execute: grid.bfsPath(sx, sy, tx, ty)
SolveBfs ==
    /\ solver = "none"
    /\ solver' = "bfs"
    /\ route' = bfsPath(gridWalls, queryStart, queryGoal)
    /\ UNCHANGED <<now, beliefVars, cooldownVars, planVars, loopVars, handoffVars,
                   storeVars, optionVars, commVars, mergeVars, cacheVars, requestVars, detectVars, carryVars, raceVars, frozenActs,
                   gridWalls, queryStart, queryGoal, queryAgents, walked>>

\* PDDLMove: the problem of PddlPlanner given to fastLocalSolver
SolveAStar ==
    /\ solver = "none"
    /\ solver' = "astar"
    /\ route' = aStarSearch(parseProblem(
                    getProblem(gridWalls, queryStart, queryGoal, queryAgents)))
    /\ UNCHANGED <<now, beliefVars, cooldownVars, planVars, loopVars, handoffVars,
                   storeVars, optionVars, commVars, mergeVars, cacheVars, requestVars, detectVars, carryVars, raceVars, frozenActs,
                   gridWalls, queryStart, queryGoal, queryAgents, walked>>

\* The cell the walk stands on
Standing == IF walked = <<>> THEN queryStart ELSE walked[Len(walked)]

\* The next direction of the route is applied
Walk ==
    /\ solver # "none"
    /\ route # NoPath
    /\ Len(walked) < Len(route)
    /\ walked' = Append(walked,
                    <<Standing[1] + ServerDelta(route[Len(walked) + 1])[1],
                      Standing[2] + ServerDelta(route[Len(walked) + 1])[2]>>)
    /\ UNCHANGED <<now, beliefVars, cooldownVars, planVars, loopVars, handoffVars,
                   storeVars, optionVars, commVars, mergeVars, cacheVars, requestVars, detectVars, carryVars, raceVars, frozenActs,
                   gridWalls, queryStart, queryGoal, queryAgents, route, solver>>

NextPath ==
    \/ SolveBfs
    \/ SolveAStar
    \/ Walk

SpecPath == InitPath /\ [][NextPath]_vars

(***************************************************************************)
(* SpecCache: a sequence of path queries answered by fastLocalSolver on a  *)
(* fixed grid.  On a miss the caller is handed the array the cache keeps;  *)
(* a caller may alter the array it was handed.                             *)
(***************************************************************************)
CACHE_CLEAR_INTERVAL == 100

\* The queries: start, goal and the cells of the other agents
CacheQueries ==
    {[start |-> <<0, 0>>, goal |-> <<GridW - 1, 0>>, others |-> o] :
        o \in {{}, {<<1, 0>>}}}

\* createCacheKey: start, goal, blocked.size and the sorted blocked tiles
createCacheKey(parsed) ==
    <<parsed.start, parsed.goal, Cardinality(parsed.blocked), parsed.blocked>>

\* parseProblem of the problem PddlPlanner writes for the query
ParsedQuery(walls, q) == parseProblem(getProblem(walls, q.start, q.goal, q.others))

\* solutionCache.get(cacheKey)
CachedPlan(cache, key) == (CHOOSE e \in cache : e.key = key).plan

\* solutionCache.set(cacheKey, plan)
CacheSet(cache, key, found) ==
    {e \in cache : e.key # key} \cup {[key |-> key, plan |-> found]}

\* fastLocalSolver without its cache: aStarSearch, null made []
UncachedPlan(walls, q) ==
    IF aStarSearch(ParsedQuery(walls, q)) = NoPath THEN <<>>
    ELSE aStarSearch(ParsedQuery(walls, q))

\* fastLocalSolver(domain, problem) after the periodic clear: cache and held
\* are what the clear has left
fastLocalSolver(cache, holder, key, count, q, found) ==
    IF \E e \in cache : e.key = key
    THEN [cache |-> cache, held |-> holder, count |-> count,
          answer |-> [ran |-> TRUE, query |-> q, plan |-> CachedPlan(cache, key),
                      hit |-> TRUE]]
    ELSE IF found = NoPath
    THEN [cache |-> cache, held |-> holder, count |-> count,
          answer |-> [ran |-> TRUE, query |-> q, plan |-> <<>>, hit |-> FALSE]]
    ELSE [cache |-> CacheSet(cache, key, found), held |-> key, count |-> count,
          answer |-> [ran |-> TRUE, query |-> q, plan |-> found, hit |-> FALSE]]

InitCache ==
    /\ now = 0
    /\ InitBelief
    /\ InitCooldown
    /\ InitPlanIdle
    /\ InitOptionsIdle
    /\ InitLoopIdle
    /\ InitHandoffIdle
    /\ InitStoreIdle
    /\ InitCommIdle
    /\ InitMergeIdle
    /\ frozenActs = FALSE
    /\ InitRaceIdle
    /\ InitCarryIdle
    /\ InitDetectIdle
    /\ InitRequestIdle
    /\ InitCacheIdle
    /\ gridWalls \in WallChoices
    /\ queryStart = <<0, 0>>
    /\ queryGoal = <<0, 0>>
    /\ queryAgents = {}
    /\ route = NoPath
    /\ walked = <<>>
    /\ solver = "none"

\* A caller calls fastLocalSolver
SolveCached ==
    /\ cacheCallCount < MaxCalls
    /\ \E q \in CacheQueries :
          LET count == cacheCallCount + 1
              cleared == count % CACHE_CLEAR_INTERVAL = 0
              r == fastLocalSolver(IF cleared THEN {} ELSE solutionCache,
                                   IF cleared THEN NoKey ELSE held,
                                   createCacheKey(ParsedQuery(gridWalls, q)),
                                   count, q, aStarSearch(ParsedQuery(gridWalls, q)))
          IN /\ solutionCache' = r.cache
             /\ held' = r.held
             /\ cacheCallCount' = r.count
             /\ answer' = r.answer
    /\ UNCHANGED <<now, beliefVars, cooldownVars, planVars, loopVars, handoffVars,
                   storeVars, optionVars, commVars, mergeVars, pathVars, requestVars, detectVars, carryVars, raceVars, frozenActs>>

\* The caller that was handed the cached array takes its first step off
\* (plan.shift()) and lets go of it
CallerAlters ==
    /\ held # NoKey
    /\ CachedPlan(solutionCache, held) # <<>>
    /\ solutionCache' = CacheSet(solutionCache, held, Tail(CachedPlan(solutionCache, held)))
    /\ held' = NoKey
    /\ UNCHANGED <<now, beliefVars, cooldownVars, planVars, loopVars, handoffVars,
                   storeVars, optionVars, commVars, mergeVars, pathVars, requestVars, detectVars, carryVars, raceVars, frozenActs,
                   cacheCallCount, answer>>

NextCache ==
    \/ SolveCached
    \/ CallerAlters

SpecCache == InitCache /\ [][NextCache]_vars

(***************************************************************************)
(* C8. Claim tie-break.  Whenever two distinct agents hold live go_pick_up *)
(* claims on the same parcel with equal scores, and no third agent claims  *)
(* that parcel, shouldYieldClaim evaluated by the agent with the           *)
(* lexicographically larger identifier tells it to yield to the other, and *)
(* evaluated by the agent with the smaller identifier returns null.        *)
(***************************************************************************)
LiveClaimOf(a) == MapGet(getClaims(claims, now), a)

TiedPair(a, b) ==
    /\ a # b
    /\ LiveClaimOf(a) # Null /\ LiveClaimOf(b) # Null
    /\ LiveClaimOf(a).action = "go_pick_up" /\ LiveClaimOf(b).action = "go_pick_up"
    /\ LiveClaimOf(a).targetId = LiveClaimOf(b).targetId
    /\ LiveClaimOf(a).score = LiveClaimOf(b).score
    /\ \A c \in AgentIds \ {a, b} :
          LiveClaimOf(c) # Null =>
              ~(LiveClaimOf(c).action = "go_pick_up"
                /\ LiveClaimOf(c).targetId = LiveClaimOf(a).targetId)

C8_TieBreakSymmetric ==
    \A a \in AgentIds, b \in AgentIds :
        (TiedPair(a, b) /\ LexLess(a, b)) =>
            LET p == LiveClaimOf(a).targetId
                s == LiveClaimOf(a).score
            IN /\ shouldYieldClaim(claims, now, p, b, s) = [yieldTo |-> a]
               /\ shouldYieldClaim(claims, now, p, a, s) = Null

\* Two agents, one identifier a proper prefix of the other, tied on a parcel.
C8_Witness ==
    \E a \in AgentIds, b \in AgentIds :
        /\ TiedPair(a, b)
        /\ Len(a) < Len(b) /\ LexLess(a, b)
        /\ claims[1].agentId = b

(***************************************************************************)
(* C9. Claim time-to-live.  A claim registered at time T, and neither      *)
(* registered again nor cleared, is returned by getClaims (and, being a    *)
(* go_pick_up claim, makes isParcelClaimed answer for its parcel) at every *)
(* time up to T + 3000 - 1, and is returned by neither at any time from    *)
(* T + 3000 + 1 on.                                                        *)
(***************************************************************************)
C9_ClaimVisibleWithinTtl ==
    \A a \in AgentIds :
        regTime[a] # -1 =>
            /\ now - regTime[a] <= CLAIM_TTL - 1 =>
                  /\ MapHas(getClaims(claims, now), a)
                  /\ MapGet(claims, a).timestamp = regTime[a]
                  /\ MapGet(claims, a).action = "go_pick_up" =>
                        isParcelClaimed(claims, now, MapGet(claims, a).targetId) # Null
            /\ now - regTime[a] >= CLAIM_TTL + 1 =>
                  /\ ~MapHas(getClaims(claims, now), a)
                  /\ \A p \in ParcelIds :
                        isParcelClaimed(claims, now, p) # Null =>
                            isParcelClaimed(claims, now, p).agentId # a

\* A claim past its TTL that a read has pruned, after being read while live.
C9_Witness ==
    \E a \in AgentIds :
        /\ regTime[a] = 1
        /\ now = 1 + CLAIM_TTL + 1
        /\ ~MapHas(claims, a)

(***************************************************************************)
(* C10. Cooldown window.  After setCooldown(kind, key, d) at time T, with  *)
(* no later set or clear on that key, isOnCooldown(kind, key) is true at   *)
(* every time in [T, T + d) and false at every time from T + d on.         *)
(***************************************************************************)
C10_CooldownWindow ==
    \A kt \in CooldownTargets :
        LET h == cdSet[FullKey(kt[1], kt[2])]
        IN h.set =>
              isOnCooldown(cooldowns, kt[1], kt[2], now) = (now < h.at + h.ms)

\* A 3000 ms cooldown queried at its expiry instant, after a query pruned it.
C10_Witness ==
    \E kt \in CooldownTargets :
        LET h == cdSet[FullKey(kt[1], kt[2])]
        IN /\ h.set /\ h.ms = COOLDOWN_MS
           /\ now = h.at + h.ms
           /\ cooldowns[FullKey(kt[1], kt[2])] = 0

(***************************************************************************)
(* C1. Pickup of a parcel that is gone.  As claimed: whenever a go_pick_up *)
(* goal for a parcel identifier that was not among the free parcels of the *)
(* belief, at its start and throughout, has settled, it returned true and  *)
(* no pickup action was issued, wherever the agent started.                *)
(***************************************************************************)
PickUpOfAbsentSettled ==
    /\ ppc = "done"
    /\ plan.desire = "go_pick_up"
    /\ plan.id \in ParcelIds
    /\ hist.absentAll

C1_AbsentParcelAlwaysSucceeds ==
    PickUpOfAbsentSettled =>
        /\ result = "true"
        /\ ~hist.planPickup
        /\ ~hist.moverPickup

(***************************************************************************)
(* C1, amended.  Whenever such a goal has settled with the agent on the    *)
(* target cell, the target not having been on cooldown and the plan not    *)
(* stopped, it returned true and GoPickUp itself issued no pickup action   *)
(* (the mover may have picked up another parcel on the way).               *)
(***************************************************************************)
C1_AbsentParcelSucceedsOnArrival ==
    (/\ PickUpOfAbsentSettled
     /\ pos = plan.tx
     /\ ~planStopped
     /\ result # "target on cooldown") =>
        /\ result = "true"
        /\ ~hist.planPickup

\* The agent walked to the cell of the vanished parcel, the mover picking up
\* the other parcel on the way, and the goal succeeded.
C1_Witness ==
    /\ PickUpOfAbsentSettled
    /\ pos = plan.tx
    /\ ~planStopped
    /\ result = "true"
    /\ hist.moverPickup
    /\ TargetParcel \in ground

(***************************************************************************)
(* C2. Delivery with nothing carried.  Whenever a go_deliver goal has      *)
(* settled after reaching its carried test with zero parcels carried, it   *)
(* returned true.                                                          *)
(***************************************************************************)
C2_DeliverEmptyHandedSucceeds ==
    (/\ ppc = "done"
     /\ plan.desire = "go_deliver"
     /\ hist.checkedCarried = 0) =>
        result = "true"

(***************************************************************************)
(* C7. Cooperative cancellation.  Once stop() has been called on the       *)
(* running plan, no move is issued any more (the one in flight may         *)
(* finish), and when the plan settles it has thrown 'stopped'.             *)
(***************************************************************************)
C7_StopObservedAtNextStep ==
    planStopped =>
        /\ ~hist.movedAfterStop
        /\ ppc = "done" => result = "stopped"

(***************************************************************************)
(* C5. No failure leaves the agent idle for ever.  Whenever an intention   *)
(* has failed, the loop eventually deliberates again: it runs the option   *)
(* generator or starts a queued goal.                                      *)
(***************************************************************************)
C5_FailureLeadsToDeliberation == failedPending ~> ~failedPending

(***************************************************************************)
(* C6. One plan at a time.  In every reachable state at most one intention *)
(* has a plan in execution.                                                *)
(***************************************************************************)
RunningIntentions == {i \in IntentionIds : ints[i].st = "running"}

C6_OnePlanInExecution == Cardinality(RunningIntentions) <= 1

\* A pre-empted go_random is still running, already off the queue, while
\* the goal pushed in its place waits for the loop.
C6_Witness ==
    /\ lpc = "achieving"
    /\ RunningIntentions = {awaited}
    /\ \A k \in 1..Len(intentions) : intentions[k] # awaited
    /\ Len(intentions) > 0
    /\ ints[awaited].stopped

(***************************************************************************)
(* The protocol has come to rest: it was started, no message is on its way *)
(* and neither agent can start it again.                                   *)
(***************************************************************************)
HandoffAtRest ==
    /\ began # {}
    /\ \A ag \in HandoffAgents :
          /\ inbox[ag] = <<>>
          /\ ag \in began \/ coordination[ag] \/ coolingDown[ag]

(***************************************************************************)
(* C3. A lost protocol message ends in an abort.  When a message of the    *)
(* handoff was lost and the protocol has come to rest, both agents have    *)
(* left coordination mode.                                                 *)
(***************************************************************************)
C3_LostMessageAborts ==
    (lost /\ HandoffAtRest) => \A ag \in HandoffAgents : ~coordination[ag]

(***************************************************************************)
(* C4. The corridor handoff completes.  When no message was lost and the   *)
(* protocol has come to rest, B carries A's parcel and both agents have    *)
(* left coordination mode.                                                 *)
(***************************************************************************)
C4_HandoffCompletes ==
    (~lost /\ HandoffAtRest) =>
        /\ parcelHolder = "B"
        /\ \A ag \in HandoffAgents : ~coordination[ag]

(***************************************************************************)
(* C11. Decay and freshness.  Every parcel getFreeParcels returns, stored  *)
(* with observed reward r at time t0, is returned with the reward          *)
(* max(0, r - (t - t0)/1000 * lossForSecond), which is positive, and with  *)
(* t - t0 inside the freshness window; and the reward returned for the     *)
(* same stored parcel never grows from one call to the next.               *)
(***************************************************************************)
C11_DecayedRewardAndFreshness ==
    \A id \in StoreIds :
        LET q == freeParcels[id]
            b == freeBefore[id]
            elapsed == freeAt - q.timestamp
            decayed == q.observedReward * 1000 - elapsed * lossForSecond
        IN q.returned =>
            /\ q.reward = (IF decayed < 0 THEN 0 ELSE decayed)
            /\ q.reward > 0
            /\ elapsed < FRESHNESS_MS
            /\ (b.returned /\ b.observedReward = q.observedReward
                    /\ b.timestamp = q.timestamp) => q.reward <= b.reward

\* A parcel is returned twice, the second time with less than before.
C11_Witness ==
    \E id \in StoreIds :
        /\ freeParcels[id].returned /\ freeBefore[id].returned
        /\ freeParcels[id].timestamp = freeBefore[id].timestamp
        /\ freeParcels[id].reward < freeBefore[id].reward


(***************************************************************************)
(* C12. Greedy route never worse than its first parcel.  The netScore of   *)
(* the route buildGreedyRoute returns, as evaluateRoute computes it, is    *)
(* not lower than the netScore of the route made of the single best parcel *)
(* it started from.                                                        *)
(***************************************************************************)
C12_RouteNotWorseThanBestParcel ==
    (gen.ran /\ Len(gen.opt.bestRoute) > 0) =>
        gen.opt.bestRouteScore >=
            evaluateRoute(me.x, <<gen.opt.bestRoute[1]>>, deliveryZones, me).netScore


(***************************************************************************)
(* C13. One goal per invocation.  As stated: an invocation of              *)
(* optionsGeneration with no useful goal in flight (an empty queue, or a   *)
(* go_random at the head while parcels are known or carried) pushes        *)
(* exactly one goal; an invocation while a non-random intention is at the  *)
(* head pushes nothing and leaves the intention queue unchanged.           *)
(***************************************************************************)
NoUsefulGoalInFlight ==
    gen.head = "none" \/ (gen.head = "go_random" /\ gen.useful)

QueueAtPush == IF gen.head = "go_random" THEN Tail(gen.before) ELSE gen.before

\* Agent.push drops the goal: handoff state, or the same predicate is queued
PushDropsGoal ==
    \/ gen.inHandoff
    \/ \E k \in 1..Len(QueueAtPush) : QueueAtPush[k] = gen.opt.goal

ZoneSet == {deliveryZones[k] : k \in 1..Len(deliveryZones)}

NearestOf(zs, z) == z \in zs /\ \A y \in zs : Abs(z - me.x) <= Abs(y - me.x)

ZonesNotCooled ==
    {z \in ZoneSet : ~CooldownActive(cooldowns[FullKey("delivery", CellKey(z))], now)}

\* optionsGeneration ran carrying a parcel, with a delivery zone on the map
\* and no useful goal in flight, and pushed its goal
CarryingGoalPushed ==
    /\ gen.ran
    /\ NoUsefulGoalInFlight
    /\ me.carried >= 1
    /\ ZoneSet # {}
    /\ gen.pushed = 1

PickupOrDelivery(goal) ==
    \/ goal.desire = "go_deliver"
    \/ goal.desire = "go_pick_up" /\ goal.id \in ParcelIds

NoPositiveOption == gen.opt.deliverNowScore <= 0 /\ gen.opt.bestRouteScore <= 0

C14_FallbackToNearestZone ==
    CarryingGoalPushed =>
        /\ PickupOrDelivery(gen.opt.goal)
        /\ NoPositiveOption =>
              /\ gen.opt.goal.desire = "go_deliver"
              /\ NearestOf(ZoneSet, gen.opt.goal.x)

(***************************************************************************)
(* C14, amended.  The same, with the fallback delivery going to the        *)
(* nearest delivery zone that is not on cooldown, and to the nearest zone  *)
(* of all only when every zone is on cooldown.                             *)
(***************************************************************************)
C14_FallbackToNearestFreeZone ==
    CarryingGoalPushed =>
        /\ PickupOrDelivery(gen.opt.goal)
        /\ NoPositiveOption =>
              /\ gen.opt.goal.desire = "go_deliver"
              /\ IF ZonesNotCooled # {}
                 THEN NearestOf(ZonesNotCooled, gen.opt.goal.x)
                 ELSE NearestOf(ZoneSet, gen.opt.goal.x)

\* The fallback delivery was pushed, past a nearer zone that is on cooldown
C14_Witness ==
    /\ CarryingGoalPushed
    /\ NoPositiveOption
    /\ gen.opt.goal.desire = "go_deliver"
    /\ gen.after = <<gen.opt.goal>>
    /\ ZonesNotCooled # {}
    /\ ~NearestOf(ZoneSet, gen.opt.goal.x)


(***************************************************************************)
(* C15. Yield, then the next best option.  When the best pickup candidate  *)
(* is skipped because the partner's claim outranks it, optionsGeneration   *)
(* commits to the next best pickup candidate if one with a positive score  *)
(* exists, and otherwise to delivery if parcels are carried; it does not   *)
(* fall through to explore or random while another positive pickup         *)
(* candidate exists.                                                       *)
(***************************************************************************)
\* The candidates other than the skipped one whose pickup scores positive
OtherPositiveCandidates ==
    {k \in 1..Len(gen.opt.candidates) :
        /\ gen.opt.candidates[k].id # gen.opt.bestRoute[1].id
        /\ evaluateRoute(me.x, <<gen.opt.candidates[k]>>, deliveryZones, me).netScore > 0}

C15_YieldTakesNextBest ==
    (gen.ran /\ NoUsefulGoalInFlight /\ gen.opt.yielded) =>
        IF OtherPositiveCandidates # {}
        THEN /\ gen.opt.goal.desire = "go_pick_up"
             /\ \E k \in OtherPositiveCandidates :
                   gen.opt.goal.id = gen.opt.candidates[k].id
        ELSE me.carried > 0 => gen.opt.goal.desire = "go_deliver"


(***************************************************************************)
(* C16. The single-parcel scenario.  As stated: with one free parcel of    *)
(* reward 10 at Manhattan distance 4 from the agent, no decay, no other    *)
(* agents, nothing carried and no goal in flight (and, the game being      *)
(* fresh, nothing on cooldown), optionsGeneration pushes go_pick_up for    *)
(* that parcel with score 10 - 4 * lossPerMove.                            *)
(***************************************************************************)
SingleParcelScenario ==
    /\ gen.ran
    /\ gen.head = "none"
    /\ ~gen.inHandoff
    /\ Len(free) = 1
    /\ free[1].reward = 10
    /\ manhattanDistance(me.x, free[1].x) = 4
    /\ otherAgents = {}
    /\ \A k \in 1..Len(claims) : claims[k].agentId = MyId
    /\ me.carried = 0
    /\ \A key \in DOMAIN cooldowns : cooldowns[key] = 0

PickupPushedWithScore(score) ==
    /\ gen.pushed = 1
    /\ gen.after = <<Goal("go_pick_up", free[1].x, free[1].id, score * ScoreUnit)>>

DeliveryDistance(d) ==
    /\ \E z \in ZoneSet : d = Abs(z - free[1].x)
    /\ \A z \in ZoneSet : d <= Abs(z - free[1].x)

TargetCooled(goal) ==
    IF goal.desire = "go_pick_up"
    THEN CooldownActive(cooldowns[FullKey("parcel", goal.id)], now)
    ELSE IF goal.desire = "go_deliver"
    THEN CooldownActive(cooldowns[FullKey("delivery", CellKey(goal.x))], now)
    ELSE FALSE

C20_NoGoalForCooledTarget ==
    (gen.ran /\ gen.pushed = 1) => ~TargetCooled(gen.opt.goal)

(***************************************************************************)
(* C20, amended.  The same, except that go_deliver is still pushed for a   *)
(* delivery tile on cooldown when every delivery zone is on cooldown.      *)
(***************************************************************************)
C20_NoGoalForCooledTargetButLastZone ==
    (gen.ran /\ gen.pushed = 1) =>
        \/ ~TargetCooled(gen.opt.goal)
        \/ gen.opt.goal.desire = "go_deliver" /\ ZonesNotCooled = {}

\* With p1 on cooldown and known, the goal pushed is the pickup of p2
C20_Witness ==
    /\ gen.ran
    /\ gen.pushed = 1
    /\ CooldownActive(cooldowns[FullKey("parcel", "p1")], now)
    /\ \E k \in 1..Len(free) : free[k].id = "p1"
    /\ gen.opt.goal.desire = "go_pick_up"
    /\ gen.opt.goal.id = "p2"


(***************************************************************************)
(* C17. Bounded macro-retry, then a cooldown.  A pickup or delivery goal   *)
(* makes at most 3 movement attempts; when they have failed (the mover     *)
(* returned 'obstructed' or threw), the goal has ended in failure with a   *)
(* cooldown set on its target in the belief store, where the option        *)
(* generator reads it.                                                     *)
(***************************************************************************)
PlanTargetKey ==
    IF plan.desire = "go_pick_up" THEN FullKey("parcel", plan.id)
    ELSE FullKey("delivery", CellKey(plan.tx))

\* execute() threw because the movement to the target failed
MovementFailed ==
    /\ ppc = "done"
    /\ \/ result \in {"delivery failed", "move blocked after retries", "no plan found"}
       \/ result = "pickup failed" /\ ~hist.planPickup

C17_ThreeAttemptsThenCooldown ==
    /\ attempt < MAX_ATTEMPTS
    /\ attempt < PLAN_MAX_ATTEMPTS
    /\ MovementFailed => cooldowns[PlanTargetKey] # 0


(***************************************************************************)
(* C18. Conflict with the partner short-circuits the retries.  When a move *)
(* is blocked by the bound partner, the conflict error raised by the mover *)
(* ends the current goal: the enclosing pickup or delivery plan runs no    *)
(* further macro-retry of that movement.                                   *)
(***************************************************************************)
C18_ConflictEndsGoal == ~hist.retriedAfterConflict


(***************************************************************************)
(* C19. The next goal is chosen on success.  When a pickup or delivery     *)
(* plan succeeds, the option generator it calls before returning has       *)
(* pushed a new goal on the intention queue by the time the plan returns.  *)
(***************************************************************************)
\* The step in which the awaited pickup or delivery returns true
PickupOrDeliverySucceeds ==
    /\ lpc = "achieving"
    /\ lpc' = "sleep"
    /\ ~failedPending'
    /\ ints[awaited].predicate.desire \in {"go_pick_up", "go_deliver"}

\* A new intention object is in the queue after the step
GoalPushed ==
    \E i \in IntentionIds :
        /\ ints[i].st = "free"
        /\ ints'[i].st = "queued"
        /\ \E k \in 1..Len(intentions') : intentions'[k] = i

C19_SuccessPushesNextGoal == [][PickupOrDeliverySucceeds => GoalPushed]_vars


(***************************************************************************)
(* C21. Nothing before the handshake.  Until the handshake has completed   *)
(* on an agent (handshakeCompleted and a friend identifier recorded), the  *)
(* agent sends no INFO_PARCELS, INFO_AGENTS, INTENTION, REQUEST or HANDOFF *)
(* message and neither starts nor takes part in a handoff: it has not      *)
(* entered coordination mode.                                              *)
(***************************************************************************)
HandshakeDone == handshakeCompleted /\ friendId # NoFriend

C21_NothingBeforeHandshake ==
    ~HandshakeDone => (sent \notin Coordinated /\ ~coordinationMode /\ cooldownLeft = 0)

\* The first agent has recorded its friend and still awaits the sending of
\* its ack; a message or a handoff was held back and the partner's data and
\* protocol messages have arrived.
C21_Witness ==
    /\ ~handshakeCompleted
    /\ friendId # NoFriend
    /\ refused
    /\ commHist.last.handled
    /\ ~commHist.last.foreign
    /\ sent = NoHeader
    /\ ~coordinationMode

(***************************************************************************)
(* C22. The binding is final.  Once an agent is bound to a partner its     *)
(* recorded friend identifier never changes: a handshake request or ack    *)
(* arriving at an already-bound agent, from any sender, is not answered    *)
(* and does not rebind it.                                                 *)
(***************************************************************************)
C22_BindingIsFinal == ~commHist.rebound /\ ~commHist.answered

(***************************************************************************)
(* C23. Foreign messages are ignored.  Handling an inbound message whose   *)
(* sender is not the bound partner, or whose header is not in the          *)
(* vocabulary, changes nothing: parcel and agent belief, the claim         *)
(* registry, the intention queue and the coordination state are the same   *)
(* after handling as before.                                               *)
(***************************************************************************)
C23_ForeignMessagesIgnored ==
    commHist.last.handled /\ commHist.last.foreign => ~commHist.last.changed


(***************************************************************************)
(* C24. On a grid without interior walls and without blocked cells, the    *)
(* directions returned by Grid.bfsPath and by aStarSearch, applied from    *)
(* the start, end on the goal, and there are as many of them as the        *)
(* Manhattan distance between start and goal.                              *)
(***************************************************************************)
OpenGrid == gridWalls = {} /\ queryAgents = {}

Arrived == route # NoPath /\ Len(walked) = Len(route) /\ Standing = queryGoal

C24_ShortestOnOpenGrid ==
    (OpenGrid /\ solver # "none") =>
        /\ route # NoPath
        /\ Len(route) = heuristic(queryStart, queryGoal)
        /\ Len(walked) = Len(route) => Standing = queryGoal

C24_Witness ==
    /\ OpenGrid
    /\ solver = "bfs"
    /\ Len(route) = GridW + GridH - 2
    /\ Arrived

(***************************************************************************)
(* C25. A path query of the PDDL planner whose goal cell is occupied by    *)
(* another agent still returns a path that ends on the goal whenever the   *)
(* goal can be reached through accessible cells no agent stands on, and    *)
(* the path enters no occupied cell other than the goal.                   *)
(***************************************************************************)
RECURSIVE ReachableFrom(_, _)
ReachableFrom(seen, allowed) ==
    IF \A c \in seen : \A dir \in {"up", "down", "left", "right"} :
          <<c[1] + ServerDelta(dir)[1], c[2] + ServerDelta(dir)[2]>> \in seen
          \/ <<c[1] + ServerDelta(dir)[1], c[2] + ServerDelta(dir)[2]>> \notin allowed
    THEN seen
    ELSE ReachableFrom(
            seen \cup {n \in allowed : \E c \in seen : heuristic(c, n) = 1}, allowed)

GoalReachable ==
    /\ accessible(gridWalls, queryStart)
    /\ queryGoal \in ReachableFrom({queryStart},
                    {c \in GridCells : accessible(gridWalls, c)
                                       /\ (c \notin queryAgents \/ c = queryGoal)})

C26_MostRecentObservationWins ==
    (merged.ran /\ merged.hadEntry /\ merged.hasEntry) =>
        merged.resultSeen = Max(merged.storedSeen, merged.remoteSeen)

(***************************************************************************)
(* C27. No perception sync and no remote merge ever creates, updates or    *)
(* deletes the entry of the agent's own identifier in its agent belief,    *)
(* also before the identifier is known.                                    *)
(***************************************************************************)
C27_OwnEntryUntouched == [][agents'[MyId] = agents[MyId]]_vars


(***************************************************************************)
(* C28. When every protocol message is delivered, every handoff that       *)
(* starts also ends: END or STUCK is eventually exchanged, both agents     *)
(* leave coordination mode and no protocol message is left.                *)
(***************************************************************************)
SpecHandoffFair == SpecHandoff /\ WF_vars(ReceiveHandoff)

InCoordination == \E ag \in HandoffAgents : coordination[ag]

\* Every agent has reset its coordination state, which an agent does only
\* on sending or receiving END or STUCK, and nothing is under way.
HandoffEnded ==
    /\ \A ag \in HandoffAgents : ~coordination[ag] /\ coolingDown[ag]
    /\ \A ag \in HandoffAgents : inbox[ag] = <<>>

C28_HandoffEnds == InCoordination ~> (lost \/ HandoffEnded)

C28_Witness ==
    /\ began # {}
    /\ ~lost
    /\ HandoffEnded
    /\ parcelHolder = "B"


(***************************************************************************)
(* C29. Only the agent with the lower identifier starts the handoff as     *)
(* initiator: the two agents never both run beginCoordinationProtocol as   *)
(* initiator for the same encounter.                                       *)
(***************************************************************************)
C29_OnlyLowerIdInitiates ==
    \A ag \in began : LexLess(HandoffAgentId(ag), HandoffAgentId(Other(ag)))


(***************************************************************************)
(* C30. While the agent is in coordination mode none of its intention      *)
(* plans issues a primitive action: entering the protocol, as initiator or *)
(* on receipt of a HANDOFF message, stops the plan that is running.        *)
(***************************************************************************)
C30_NoActionInCoordinationMode == ~frozenActs


(***************************************************************************)
(* C39. For every grid, start, goal and blocked set the A* solver returns  *)
(* a path that enters no blocked cell other than the goal and is as long   *)
(* as the breadth-first shortest distance under those obstacles; it        *)
(* returns no path exactly when start or goal is inaccessible or the goal  *)
(* is unreachable, and never a partial path.                               *)
(***************************************************************************)
\* The cells a path may enter
Enterable ==
    {c \in GridCells : accessible(gridWalls, c) /\ (c \notin queryAgents \/ c = queryGoal)}

\* Breadth-first distance from the cells seen after d steps to the goal
RECURSIVE BreadthFirstDistance(_, _)
BreadthFirstDistance(seen, d) ==
    IF queryGoal \in seen THEN d
    ELSE BreadthFirstDistance(
            seen \cup {n \in Enterable : \E c \in seen : heuristic(c, n) = 1}, d + 1)

PathExists ==
    /\ accessible(gridWalls, queryStart)
    /\ accessible(gridWalls, queryGoal)
    /\ GoalReachable

C39_AStarShortestOrNoPath ==
    solver = "astar" =>
        /\ route = NoPath <=> ~PathExists
        /\ route # NoPath =>
              /\ Len(route) = BreadthFirstDistance({queryStart}, 0)
              /\ \A i \in 1..Len(walked) :
                    walked[i] \in queryAgents => walked[i] = queryGoal
              /\ Len(walked) = Len(route) => Standing = queryGoal


(***************************************************************************)
(* C40. For every sequence of path queries on a fixed grid, fastLocalSolver *)
(* with its cache returns for each query the plan an uncached A* search on  *)
(* that query returns, whatever the callers do with the plans they got.     *)
(***************************************************************************)
C40_CacheIsTransparent ==
    answer.ran => answer.plan = UncachedPlan(gridWalls, answer.query)


(***************************************************************************)
(* C32. Every intention the agent loop removes from the queue is the one   *)
(* whose achieve() it has just awaited: an intention pushed while another  *)
(* one is running is never removed from the queue, nor marked stopped,     *)
(* without having been started.                                            *)
(***************************************************************************)
OnQueue(i) == \E k \in 1..Len(intentions) : intentions[k] = i

C32_OnlyStartedIntentionsLeave ==
    [][\A i \in IntentionIds :
          (OnQueue(i) /\ ints[i].st = "queued" /\ lpc = "achieving"
              /\ ints[awaited].st = "running") =>
              /\ \E k \in 1..Len(intentions') : intentions'[k] = i
              /\ ints'[i].stopped = ints[i].stopped]_vars

(***************************************************************************)
(* C34. Every REQUEST of the bound partner is answered with one reply,     *)
(* AGREE or REFUSE, and whenever AGREE is sent the requested go_pick_up is *)
(* on the receiver's intention queue afterwards.                           *)
(***************************************************************************)
C34_AgreedGoalIsQueued == replied.header = "AGREE" => replied.queued

(***************************************************************************)
(* C35. In every reachable state the intention queue holds at most two     *)
(* intentions and never two intentions with the same predicate.            *)
(***************************************************************************)
C35_ShortQueueWithoutDuplicates ==
    /\ Len(intentions) <= 2
    /\ \A k, l \in 1..Len(intentions) :
          ints[intentions[k]].predicate = ints[intentions[l]].predicate => k = l


(***************************************************************************)
(* C33. Expired claims.                                                    *)
(***************************************************************************)
\* C33: a claim older than the 3000 ms time-to-live is used for no
\* decision: the accessor of the friend's claim does not return it, and its
\* destination is not among the blocked cells of a path query (taken here
\* with no other agent in sight).
C33_ExpiredClaimNeverUsed ==
    \A f \in AgentIds :
        /\ getFriendIntention(claims, f) # Null =>
               ~ClaimExpired(getFriendIntention(claims, f), now)
        /\ \A k \in 1..Len(claims) :
               (claims[k].agentId = f /\ ClaimExpired(claims[k], now)) =>
                   <<claims[k].x, claims[k].y>> \notin getBlockedCells({}, claims, f)


(***************************************************************************)
(* SpecDetect: the corridor deadlock detection of adapter.onAgents.  The   *)
(* initial state draws what the callback finds: the grid, the cells of the *)
(* two bound agents and of a third one, the parcels each one carries and   *)
(* the list of delivery zones.                                             *)
(***************************************************************************)
\* either the open grid or a corridor: the row y = 0 alone
CorridorWalls == {{}, {c \in GridCells : c[2] > 0}}

\* grid.manhattanDistance(x1, y1, x2, y2)
gridManhattanDistance(a, b) == Abs(a[1] - b[1]) + Abs(a[2] - b[2])

\* the four cells around (x, y)
AdjacentCells(c) ==
    {<<c[1] + 1, c[2]>>, <<c[1] - 1, c[2]>>, <<c[1], c[2] + 1>>, <<c[1], c[2] - 1>>}

\* getEscapeRoutes(x, y, agents, grid): agents is the list onAgents was
\* called with, which holds the other agents in sight and not the agent itself
getEscapeRoutes(walls, c, agentsAt) ==
    {n \in AdjacentCells(c) : accessible(walls, n) /\ n \notin agentsAt}

\* adapter.onAgents: the nest of conditions that ends in comm.initiateHandoff
corridorDeadlock(s) ==
    LET dx == Abs(s.me[1] - s.friend[1])
        dy == Abs(s.me[2] - s.friend[2])
        agentsAt == {s.friend} \cup s.others
        myEscapeRoutes == getEscapeRoutes(s.walls, s.me, agentsAt)
        friendEscapeRoutes == getEscapeRoutes(s.walls, s.friend, agentsAt)
        nearestDelivery == s.deliveryZones[1]
        myDist == gridManhattanDistance(s.me, nearestDelivery)
        friendDist == gridManhattanDistance(s.friend, nearestDelivery)
        iShouldHandoff == s.carried > 0 /\ myDist > friendDist
        friendShouldHandoff == s.friendCarried > 0 /\ friendDist > myDist
    IN /\ ~s.inHandoff
       /\ LexLess(MyId, FriendId)
       /\ Len(s.deliveryZones) > 0
       /\ (dx = 1 /\ dy = 0) \/ (dx = 0 /\ dy = 1)
       /\ Cardinality(myEscapeRoutes) <= 1
       /\ Cardinality(friendEscapeRoutes) <= 1
       /\ \/ (s.carried > 0 /\ s.friendCarried = 0)
          \/ (s.carried = 0 /\ s.friendCarried > 0)
       /\ iShouldHandoff \/ friendShouldHandoff

ZoneLists(cells) ==
    {<<>>} \cup {<<z>> : z \in cells}
           \cup {p \in cells \X cells : p[1] # p[2]}

InitDetect ==
    /\ now = 0
    /\ InitBelief
    /\ InitCooldown
    /\ InitPlanIdle
    /\ InitOptionsIdle
    /\ InitLoopIdle
    /\ InitHandoffIdle
    /\ InitStoreIdle
    /\ InitCommIdle
    /\ InitMergeIdle
    /\ InitPathIdle
    /\ InitCacheIdle
    /\ InitRequestIdle
    /\ frozenActs = FALSE
    /\ InitRaceIdle
    /\ InitCarryIdle
    /\ detection = [ran |-> FALSE, started |-> FALSE]
    /\ \E walls \in CorridorWalls :
         \E myCell \in GridCells \ walls :
           \E friendCell \in (GridCells \ walls) \ {myCell} :
             \E others \in {{}} \cup {{c} : c \in (GridCells \ walls) \ {myCell, friendCell}} :
               \E carries \in (0..1) \X (0..1), handoff \in BOOLEAN :
                 \E zones \in ZoneLists(GridCells \ walls) :
                    sensing = [walls |-> walls, me |-> myCell, friend |-> friendCell,
                               others |-> others, carried |-> carries[1],
                               friendCarried |-> carries[2],
                               deliveryZones |-> zones, inHandoff |-> handoff]

\* adapter.onAgents, from the test of me.isInHandoff() to comm.initiateHandoff
OnAgentsDetect ==
    /\ ~detection.ran
    /\ detection' = [ran |-> TRUE, started |-> corridorDeadlock(sensing)]
    /\ UNCHANGED <<now, beliefVars, cooldownVars, planVars, loopVars, handoffVars,
                   storeVars, optionVars, commVars, mergeVars, pathVars, cacheVars,
                   requestVars, carryVars, raceVars, frozenActs, sensing>>

NextDetect == OnAgentsDetect

SpecDetect == InitDetect /\ [][NextDetect]_vars

\* cells next to c that an agent could step on: accessible and with no agent on
FreeAdjacentCells(s, c) ==
    {n \in AdjacentCells(c) :
        accessible(s.walls, n) /\ n \notin ({s.me, s.friend} \cup s.others)}

\* distance from c to the delivery zone nearest to it
NearestZoneDistance(s, c) ==
    LET ds == {gridManhattanDistance(c, s.deliveryZones[k]) : k \in 1..Len(s.deliveryZones)}
    IN CHOOSE d \in ds : \A e \in ds : d <= e

\* C36: the detection starts a handoff only when the two agents are
\* adjacent, each has at most one free adjacent cell, exactly one of them
\* carries parcels, and the carrying one is strictly farther from its nearest
\* delivery zone than the other is from its own.
C36_HandoffStartsOnlyInDeadlock ==
    detection.started =>
        /\ gridManhattanDistance(sensing.me, sensing.friend) = 1
        /\ Cardinality(FreeAdjacentCells(sensing, sensing.me)) <= 1
        /\ Cardinality(FreeAdjacentCells(sensing, sensing.friend)) <= 1
        /\ (sensing.carried > 0) # (sensing.friendCarried > 0)
        /\ IF sensing.carried > 0
           THEN NearestZoneDistance(sensing, sensing.me)
                    > NearestZoneDistance(sensing, sensing.friend)
           ELSE NearestZoneDistance(sensing, sensing.friend)
                    > NearestZoneDistance(sensing, sensing.me)


(***************************************************************************)
(* C37. Cooldown after a handoff.                                          *)
(***************************************************************************)
\* C37: after a handoff has ended or aborted the agent takes part in no
\* new handoff for 3000 ms: while the cooldown runs, no step (starting the
\* protocol, or handling a HANDOFF message of the partner) puts the agent
\* into coordination mode again.
C37_NoHandoffDuringCooldown ==
    [][(cooldownLeft > 0 /\ ~coordinationMode) => ~coordinationMode']_vars


(***************************************************************************)
(* SpecCarry: the agent's account of what it carries (me.carried,          *)
(* me.carriedReward, me.carried_parcels) next to what the server holds.    *)
(* Every action is one primitive action together with the update that      *)
(* follows its answer, so no primitive action is in flight in any state.   *)
(***************************************************************************)
ParcelOrder == <<"p1", "p2">>

\* what adapter.pickup() answers for the parcels of S: their id and reward
PickedUp(world, S) ==
    LET ids == SelectSeq(ParcelOrder, LAMBDA p : p \in S)
    IN [k \in 1..Len(ids) |-> [id |-> ids[k], reward |-> world[ids[k]].reward]]

\* carried_parcels.reduce((s, p) => s + (p.reward || 0), 0)
RECURSIVE SumRewards(_)
SumRewards(list) ==
    IF list = <<>> THEN 0 ELSE Head(list).reward + SumRewards(Tail(list))

\* for (const p of res) if (!carried_parcels.some(cp => cp.id === p.id)) push
RECURSIVE pushPicked(_, _)
pushPicked(list, res) ==
    IF res = <<>> THEN list
    ELSE pushPicked(IF \E k \in 1..Len(list) : list[k].id = Head(res).id
                    THEN list ELSE Append(list, Head(res)),
                    Tail(res))

\* GoPickUp.execute and the opportunistic pickup of the mover: state update
pickupUpdate(c, res) ==
    LET list == pushPicked(c.carried_parcels, res)
    IN [carried |-> Len(list), carriedReward |-> SumRewards(list),
        carried_parcels |-> list]

\* GoDeliver.execute and the opportunistic putdown: reset after delivery
deliverUpdate(c) == [carried |-> 0, carriedReward |-> 0, carried_parcels |-> <<>>]

\* adapter.onParcels: the counters are taken from the perceived parcels
onParcelsUpdate(c, world) ==
    LET carriedByMe == {p \in ParcelIds : world[p].holder = "me"}
    IN [c EXCEPT !.carried = Cardinality(carriedByMe),
                 !.carriedReward = SumRewards(PickedUp(world, carriedByMe))]

\* Comm._handleReleasePhase after adapter.putdown()
releaseUpdate(c) == [c EXCEPT !.carried = 0, !.carriedReward = 0]

\* Comm._handleAcquirePhase after adapter.pickup(): picked || me.carried
acquireUpdate(c, picked) ==
    [c EXCEPT !.carried = IF picked # 0 THEN picked ELSE c.carried]

OnGround(world) == {p \in ParcelIds : world[p].holder = "ground"}

TakenByMe(world, S) ==
    [p \in ParcelIds |-> IF p \in S THEN [world[p] EXCEPT !.holder = "me"] ELSE world[p]]

PutDown(world, to) ==
    [p \in ParcelIds |->
        IF world[p].holder = "me"
        THEN (IF to = "gone" THEN [holder |-> "gone", reward |-> 0]
              ELSE [world[p] EXCEPT !.holder = to])
        ELSE world[p]]

CarryFrame ==
    UNCHANGED <<now, beliefVars, cooldownVars, planVars, loopVars, handoffVars,
                storeVars, optionVars, commVars, mergeVars, pathVars, cacheVars,
                requestVars, detectVars, raceVars, frozenActs>>

InitCarry ==
    /\ now = 0
    /\ InitBelief
    /\ InitCooldown
    /\ InitPlanIdle
    /\ InitOptionsIdle
    /\ InitLoopIdle
    /\ InitHandoffIdle
    /\ InitStoreIdle
    /\ InitCommIdle
    /\ InitMergeIdle
    /\ InitPathIdle
    /\ InitCacheIdle
    /\ InitRequestIdle
    /\ InitDetectIdle
    /\ frozenActs = FALSE
    /\ InitRaceIdle
    /\ InitCarryIdle

\* the server spawns a parcel
ParcelAppears ==
    \E p \in ParcelIds, r \in Rewards :
        /\ serverParcels[p].holder = "gone"
        /\ serverParcels' = [serverParcels EXCEPT ![p] = [holder |-> "ground", reward |-> r]]
        /\ UNCHANGED carrying
        /\ CarryFrame

\* the server lowers a parcel's reward; at zero the parcel is gone
ParcelDecays ==
    \E p \in ParcelIds :
        /\ serverParcels[p].holder # "gone"
        /\ serverParcels' =
              [serverParcels EXCEPT ![p] =
                  IF @.reward > 1 THEN [@ EXCEPT !.reward = @ - 1]
                  ELSE [holder |-> "gone", reward |-> 0]]
        /\ UNCHANGED carrying
        /\ CarryFrame

\* GoPickUp.execute (or the mover, opportunistically): adapter.pickup()
\* takes the parcels of the agent's tile
PickupDone ==
    \E S \in SUBSET OnGround(serverParcels) :
        /\ S # {}
        /\ serverParcels' = TakenByMe(serverParcels, S)
        /\ carrying' = pickupUpdate(carrying, PickedUp(serverParcels, S))
        /\ CarryFrame

\* GoDeliver.execute (or the mover, opportunistically): adapter.putdown()
\* on a delivery tile
DeliveryDone ==
    /\ carrying.carried > 0
    /\ serverParcels' = PutDown(serverParcels, "gone")
    /\ carrying' = deliverUpdate(carrying)
    /\ CarryFrame

\* adapter.onParcels
OnParcels ==
    /\ carrying' = onParcelsUpdate(carrying, serverParcels)
    /\ carrying' # carrying
    /\ UNCHANGED serverParcels
    /\ CarryFrame

\* Comm._handleReleasePhase: the parcels are put down next to the partner
HandoffRelease ==
    /\ serverParcels' = PutDown(serverParcels, "ground")
    /\ carrying' = releaseUpdate(carrying)
    /\ <<carrying, serverParcels>>' # <<carrying, serverParcels>>
    /\ CarryFrame

\* Comm._handleAcquirePhase: the parcels the partner put down are picked up
HandoffAcquire ==
    \E S \in SUBSET OnGround(serverParcels) :
        /\ serverParcels' = TakenByMe(serverParcels, S)
        /\ carrying' = acquireUpdate(carrying, Cardinality(S))
        /\ <<carrying, serverParcels>>' # <<carrying, serverParcels>>
        /\ CarryFrame

NextCarry ==
    \/ ParcelAppears
    \/ ParcelDecays
    \/ PickupDone
    \/ DeliveryDone
    \/ OnParcels
    \/ HandoffRelease
    \/ HandoffAcquire

SpecCarry == InitCarry /\ [][NextCarry]_vars

\* C38: with no primitive action in flight, the carried count is the
\* number of entries of the carried-parcel list and carriedReward is the sum
\* of their rewards.
C38_CountersMatchCarriedList ==
    /\ carrying.carried = Len(carrying.carried_parcels)
    /\ carrying.carriedReward = SumRewards(carrying.carried_parcels)


(***************************************************************************)
(* SpecRace: the two bound agents and one free parcel both can select.     *)
(* Each agent has its own belief store; a claim reaches the partner as an  *)
(* INTENTION message.  Scores are re-evaluated at every deliberation and   *)
(* only decay.  All claims are younger than the time-to-live.              *)
(***************************************************************************)
RaceParcel == "p1"

\* a route score that makes case A of the option generator apply is positive
RaceScores == 1..(MaxScore + 1)

RaceFrame ==
    UNCHANGED <<now, beliefVars, cooldownVars, planVars, loopVars, handoffVars,
                storeVars, optionVars, commVars, mergeVars, pathVars, cacheVars,
                requestVars, detectVars, carryVars, frozenActs>>

ParcelTaken == \E ag \in HandoffAgents : rival[ag].st = "picking"

\* optionsGeneration, case A: yield to the partner's claim, or register the
\* claim, send it and push go_pick_up
caseA(r, id, s, t) ==
    IF shouldYieldClaim(r.claims, t, RaceParcel, id, s) # Null
    THEN [r EXCEPT !.st = "yielded", !.score = s]
    ELSE [r EXCEPT !.claims = registerClaim(@, id, <<"go_pick_up", 0, 0, RaceParcel, s>>, t),
                   !.st = "pursuing", !.score = s, !.selected = TRUE]

\* GoPickUp.execute before adapter.pickup(): the parcel is no longer free, or
\* the agent yields and clears its claim, or it goes on to pick up
yieldBeforePickup(r, id, t, taken) ==
    IF taken THEN [r EXCEPT !.st = "late"]
    ELSE IF shouldYieldClaim(r.claims, t, RaceParcel, id, r.score) # Null
    THEN [r EXCEPT !.claims = clearMyClaim(@, id, RaceParcel), !.st = "yielded"]
    ELSE [r EXCEPT !.st = "picking"]

InitRace ==
    /\ now = 0
    /\ InitBelief
    /\ InitCooldown
    /\ InitPlanIdle
    /\ InitOptionsIdle
    /\ InitLoopIdle
    /\ InitHandoffIdle
    /\ InitStoreIdle
    /\ InitCommIdle
    /\ InitMergeIdle
    /\ InitPathIdle
    /\ InitCacheIdle
    /\ InitRequestIdle
    /\ InitDetectIdle
    /\ InitCarryIdle
    /\ frozenActs = FALSE
    /\ InitRaceIdle

\* the agent, its queue empty, deliberates with the score of the moment
Deliberate ==
    \E ag \in HandoffAgents, s \in RaceScores :
        /\ rival[ag].st \in {"idle", "yielded"}
        /\ ~ParcelTaken
        /\ rival[ag].score # 0 => s <= rival[ag].score
        /\ Len(wire[Other(ag)]) < 2
        /\ rival' = [rival EXCEPT ![ag] = caseA(@, HandoffAgentId(ag), s, now)]
        /\ wire' = IF rival'[ag].st = "pursuing"
                   THEN [wire EXCEPT ![Other(ag)] =
                            Append(@, <<"go_pick_up", 0, 0, RaceParcel, s>>)]
                   ELSE wire
        /\ rival' # rival
        /\ RaceFrame

\* comm.on('INTENTION'): the partner's claim is registered
ReceiveIntention ==
    \E ag \in HandoffAgents :
        /\ wire[ag] # <<>>
        /\ wire' = [wire EXCEPT ![ag] = Tail(@)]
        /\ rival' = [rival EXCEPT
                       ![ag].claims = registerClaim(@, HandoffAgentId(Other(ag)),
                                                    Head(wire[ag]), now),
                       ![ag].got = TRUE]
        /\ RaceFrame

\* Agent.loop: the go_pick_up pushed while go_random was pre-empted is
\* shifted off the queue before it starts; the queue is empty again
IntentionDropped ==
    \E ag \in HandoffAgents :
        /\ rival[ag].st = "pursuing"
        /\ rival' = [rival EXCEPT ![ag].st = "idle"]
        /\ UNCHANGED wire
        /\ RaceFrame

\* GoPickUp.execute has reached the parcel's tile
ReachParcel ==
    \E ag \in HandoffAgents :
        /\ rival[ag].st = "pursuing"
        /\ rival' = [rival EXCEPT
                       ![ag] = yieldBeforePickup(@, HandoffAgentId(ag), now, ParcelTaken)]
        /\ UNCHANGED wire
        /\ RaceFrame

NextRace ==
    \/ Deliberate
    \/ ReceiveIntention
    \/ IntentionDropped
    \/ ReachParcel

SpecRace == InitRace /\ [][NextRace]_vars

BothSelectedAndInformed ==
    \A ag \in HandoffAgents : rival[ag].selected /\ rival[ag].got

\* C31: once both agents have selected the parcel and each has received
\* the other's claim, it never happens that each of them has yielded to the
\* other's claim, nor that both go on to pick up.
C31_ExactlyOneKeepsPursuing ==
    BothSelectedAndInformed =>
        /\ ~(\A ag \in HandoffAgents : rival[ag].st = "yielded")
        /\ ~(\A ag \in HandoffAgents : rival[ag].st = "picking")

====
